---------------------------- MODULE Spec2Model ----------------------------
(***************************************************************************)
(* A model of the Nori kd-tree (beltegeuse/nori): the generic SAH kd-tree  *)
(* builder of include/nori/gkdtree.h, the triangle-mesh specialisation of  *)
(* src/kdtree.cpp and the ray traversal of KDTree::rayIntersect.           *)
(*                                                                         *)
(* Numbers.  Coordinates and ray parameters are fixed-point integers in    *)
(* units of Epsilon (1e-4), so Epsilon is 1 and NORI_KD_BBOX_EPSILON is    *)
(* 10.  All geometry that is drawn lies on a lattice that keeps every      *)
(* clipping and intersection computation exact.  SAH costs are exact       *)
(* rationals [n, d].  The 32-bit KDNode word is modelled with its real     *)
(* field layout but a scaled width: the relative-offset field has          *)
(* RelOffsetBits bits instead of 28, the traversal stack has               *)
(* NORI_KD_MAXDEPTH entries with the constant scaled from 48.              *)
(***************************************************************************)
EXTENDS Integers, Sequences, FiniteSets, TLC

\* ------------------------------------------------------------------ bounds
\* Number of addMesh() calls before a build.
MaxMeshes == 2
\* Largest value getCoreCount() reports.
MaxCores == 2
\* Most subtrees one build hands off to the builder threads.
MaxJobs == 2
\* Addresses allocAligned() can return: 0 .. MemorySize - 1.
MemorySize == 6
\* Largest request to OrderedChunkAllocator::allocate, in bytes.
MaxAllocation == 3
\* Most regions a caller of the allocator holds at a time.
MaxRegions == 3
\* Width of the relative-offset field of an inner node (28 in the source).
RelOffsetBits == 2
\* Scaled NORI_KD_MAXDEPTH (48 in the source): depth cap and stack size.
NORI_KD_MAXDEPTH == 4

\* --------------------------------------------------------------- constants
Epsilon == 1
NORI_KD_BBOX_EPSILON == 10
\* Scaled NORI_KD_MIN_ALLOC (512 KiB in the source): smallest chunk.
NORI_KD_MIN_ALLOC == 2
UnitsPerOne == 10000
Infinity == 1000000
NULL == << >>

Axes == 0 .. 2

\* ------------------------------------------------------------- arithmetic
Min2(a, b) == IF a <= b THEN a ELSE b
Max2(a, b) == IF a >= b THEN a ELSE b
Abs(a) == IF a < 0 THEN -a ELSE a
Pow2(n) == 2 ^ n

\* Division truncating towards zero, as a C++ integer conversion; exact on
\* all values the lattice produces.
TruncDiv(a, b) ==
  LET q == Abs(a) \div Abs(b)
  IN  IF (a < 0) = (b < 0) THEN q ELSE -q

RECURSIVE Gcd(_, _)
Gcd(a, b) == IF b = 0 THEN a ELSE Gcd(b, a % b)


\* A guard of the form x = x holds always.  It stands where the code has
\* computed x before it goes on: the value is computed there, and the
\* parts of a function body are evaluated in the order of its statements.

\* A counted loop: Step(acc, i) for i = lo, lo + 1, ..., hi in this order,
\* started with 'acc'.  The range is halved so that long loops evaluate on
\* a shallow stack; the value is that of the loop.
RECURSIVE FoldRange(_, _, _, _)
FoldRange(Step(_, _), acc, lo, hi) ==
  CASE lo > hi -> acc
    [] lo = hi -> Step(acc, lo)
    [] OTHER   -> LET left == FoldRange(Step, acc, lo, (lo + hi) \div 2)
                  IN  CASE left = left ->
                        FoldRange(Step, left, (lo + hi) \div 2 + 1, hi)

\* ---------------------------------------------------------------- vectors
At(v, axis) == v[axis + 1]
SetAt(v, axis, x) == [v EXCEPT ![axis + 1] = x]
VAdd(a, b) == [i \in 1 .. 3 |-> a[i] + b[i]]
VSub(a, b) == [i \in 1 .. 3 |-> a[i] - b[i]]
VScale(a, k) == [i \in 1 .. 3 |-> a[i] * k]
Dot(a, b) == a[1] * b[1] + a[2] * b[2] + a[3] * b[3]
Cross(a, b) ==
  << a[2] * b[3] - a[3] * b[2],
     a[3] * b[1] - a[1] * b[3],
     a[1] * b[2] - a[2] * b[1] >>

\* ---------------------------------------------------- TBoundingBox (bbox.h)
BBox(lo, hi) == [min |-> lo, max |-> hi]
BBoxReset ==
  BBox(<<Infinity, Infinity, Infinity>>, <<-Infinity, -Infinity, -Infinity>>)
BBoxExpandByPoint(b, p) ==
  BBox([i \in 1 .. 3 |-> Min2(b.min[i], p[i])],
       [i \in 1 .. 3 |-> Max2(b.max[i], p[i])])
BBoxExpandBy(b, c) ==
  BBox([i \in 1 .. 3 |-> Min2(b.min[i], c.min[i])],
       [i \in 1 .. 3 |-> Max2(b.max[i], c.max[i])])
BBoxClip(b, c) ==
  BBox([i \in 1 .. 3 |-> Max2(b.min[i], c.min[i])],
       [i \in 1 .. 3 |-> Min2(b.max[i], c.max[i])])
BBoxIsValid(b) == \A i \in 1 .. 3 : b.max[i] >= b.min[i]
BBoxExtents(b) == VSub(b.max, b.min)
\* Half of getSurfaceArea(): e0*e1 + e1*e2 + e0*e2.
BBoxHalfArea(b) ==
  LET e == BBoxExtents(b)
  IN  e[1] * e[2] + e[2] * e[3] + e[1] * e[3]
BBoxSurfaceArea(b) == 2 * BBoxHalfArea(b)

\* ------------------------------------------------------------ Mesh (mesh.cpp)
\* The meshes a scene is assembled from: a vertex buffer and an index buffer
\* (three 0-based vertex numbers per triangle).  E is empty, A a single
\* triangle, Q a square made of three triangles in which every triangle
\* starts with the last vertex of the one before it, F a row of five
\* separate triangles, G the triangle of A stored seventeen times, each copy
\* starting with the last vertex of the copy before it; these lie in the
\* plane z = 0.  P holds two upright triangles, in the planes x = 20 and
\* x = 160, whose bounding boxes are flat along x.
MeshCatalogue ==
  [ E |-> [positions |-> << >>, indices |-> << >>],
    A |-> [positions |-> << <<0, 0, 0>>, <<20, 0, 0>>, <<0, 20, 0>> >>,
           indices   |-> <<1, 2, 0>>],
    Q |-> [positions |-> << <<0, 0, 0>>, <<20, 0, 0>>, <<20, 20, 0>>,
                            <<40, 20, 0>>, <<40, 40, 0>>, <<0, 40, 0>> >>,
           indices   |-> <<0, 1, 2, 2, 3, 4, 4, 5, 0>>],
    F |-> [positions |-> [k \in 1 .. 15 |->
                           << 40 * ((k - 1) \div 3) + (IF k % 3 = 0 THEN 20 ELSE 0),
                              IF k % 3 = 1 THEN 20 ELSE 0, 0 >>],
           indices   |-> [k \in 1 .. 15 |-> k - 1]],
    G |-> [positions |-> << <<0, 0, 0>>, <<20, 0, 0>>, <<0, 20, 0>> >>,
           indices   |-> [k \in 1 .. 51 |->
                           (((k - 1) % 3) + 2 * ((k - 1) \div 3)) % 3]],
    P |-> [positions |-> << <<20, 0, 0>>, <<20, 20, 0>>, <<20, 0, 20>>,
                            <<160, 0, 0>>, <<160, 20, 0>>, <<160, 0, 20>> >>,
           indices   |-> <<0, 1, 2, 3, 4, 5>>] ]
MeshNames == DOMAIN MeshCatalogue

\* The scenes the callers assemble: up to MaxMeshes of the small meshes,
\* the large mesh alone, or the row of triangles with the upright ones.
Scenes ==
  UNION { [1 .. n -> MeshNames \ {"G", "P"}] : n \in 0 .. MaxMeshes }
    \cup { <<"G">>, <<"F", "P">> }

getTriangleCount(mesh) == Len(mesh.indices) \div 3
getVertexCount(mesh) == Len(mesh.positions)

\* m_vertexPositions[m_indices[k]], k counted from 0.
VertexAt(mesh, k) == mesh.positions[mesh.indices[k + 1] + 1]

Mesh_getBoundingBox(mesh, index) ==
  BBoxExpandByPoint(
    BBoxExpandByPoint(
      BBox(VertexAt(mesh, 3 * index), VertexAt(mesh, 3 * index)),
      VertexAt(mesh, 3 * index + 1)),
    VertexAt(mesh, 3 * index + 2))

\* Point where the edge cur -> next meets the plane, with p[axis] = splitPos.
SHIntersection(cur, next, axis, splitPos) ==
  LET num == splitPos - At(cur, axis)
      den == At(next, axis) - At(cur, axis)
      p   == [i \in 1 .. 3 |-> cur[i] + TruncDiv((next[i] - cur[i]) * num, den)]
  IN  SetAt(p, axis, splitPos)

SHInside(p, axis, splitPos, isMinimum) ==
  (IF isMinimum THEN 1 ELSE -1) * (At(p, axis) - splitPos) >= 0

SHStep(input, output, i, axis, splitPos, isMinimum) ==
  LET cur  == input[i]
      next == input[IF i = Len(input) THEN 1 ELSE i + 1]
      curIsInside  == SHInside(cur, axis, splitPos, isMinimum)
      nextIsInside == SHInside(next, axis, splitPos, isMinimum)
  IN  IF curIsInside /\ nextIsInside THEN Append(output, next)
      ELSE IF curIsInside /\ ~nextIsInside
        THEN Append(output, SHIntersection(cur, next, axis, splitPos))
      ELSE IF ~curIsInside /\ nextIsInside
        THEN output \o <<SHIntersection(cur, next, axis, splitPos), next>>
      ELSE output

SHLoop(input, axis, splitPos, isMinimum) ==
  FoldRange(LAMBDA output, i : SHStep(input, output, i, axis, splitPos, isMinimum),
            << >>, 1, Len(input))

sutherlandHodgman(input, axis, splitPos, isMinimum) ==
  IF Len(input) < 3 THEN << >>
  ELSE SHLoop(input, axis, splitPos, isMinimum)

RECURSIVE ClipAxes(_, _, _)
ClipAxes(vertices, axis, bbox) ==
  CASE vertices = vertices ->
    IF axis > 2 THEN vertices
    ELSE ClipAxes(
           sutherlandHodgman(
             sutherlandHodgman(vertices, axis, At(bbox.min, axis), TRUE),
             axis, At(bbox.max, axis), FALSE),
           axis + 1, bbox)

ExpandByAll(b, pts) ==
  FoldRange(LAMBDA acc, i : BBoxExpandByPoint(acc, pts[i]), b, 1, Len(pts))

Mesh_getClippedBoundingBox(mesh, index, bbox) ==
  LET vertices1 == [i \in 1 .. 3 |-> VertexAt(mesh, 3 * index + i - 1)]
  IN  BBoxClip(ExpandByAll(BBoxReset, ClipAxes(vertices1, 0, bbox)), bbox)

\* Moeller-Trumbore test against the triangle p0 p1 p2.  u, v and t are the
\* quotients of the three numerators by det; the comparisons are carried
\* out on the numerators.
MollerTrumbore(p0, p1, p2, ray) ==
  LET edge1 == VSub(p1, p0)
      edge2 == VSub(p2, p0)
      pvec  == Cross(ray.d, edge2)
      det   == Dot(edge1, pvec)
      tvec  == VSub(ray.o, p0)
      un    == Dot(tvec, pvec)
      qvec  == Cross(tvec, edge1)
      vn    == Dot(ray.d, qvec)
      tn    == Dot(edge2, qvec)
      neg(x) == x * det < 0
      gt1(x) == IF det > 0 THEN x > det ELSE x < det
  IN  IF det = 0 THEN [success |-> FALSE, t |-> 0]
      ELSE IF neg(un) \/ gt1(un) THEN [success |-> FALSE, t |-> 0]
      ELSE IF neg(vn) \/ gt1(un + vn) THEN [success |-> FALSE, t |-> 0]
      ELSE [success |-> TRUE, t |-> TruncDiv(tn, det)]

\* The third index is fetched from m_indices[3*index+3].  For the last
\* triangle of a mesh this lies one past the index buffer and the value
\* read there is 'garbage', an arbitrary number.  A vertex number outside
\* the vertex buffer makes the following vertex fetch fault.
Mesh_thirdIndex(mesh, index, garbage) ==
  IF 3 * index + 3 < Len(mesh.indices) THEN mesh.indices[3 * index + 4]
  ELSE garbage

\* The entries of the index buffer (counted from 0) that rayIntersect
\* reads for triangle 'index'.
Mesh_rayIntersectEntries(index) == {3 * index, 3 * index + 1, 3 * index + 3}

Mesh_rayIntersect(mesh, index, ray, garbage) ==
  LET i2 == Mesh_thirdIndex(mesh, index, garbage)
  IN  IF i2 >= getVertexCount(mesh)
        THEN [success |-> FALSE, t |-> 0, fault |-> TRUE]
        ELSE [fault |-> FALSE] @@
             MollerTrumbore(VertexAt(mesh, 3 * index), VertexAt(mesh, 3 * index + 1),
                            mesh.positions[i2 + 1], ray)

\* The triangle the index buffer describes (vertices 3i, 3i+1, 3i+2): the
\* one getBoundingBox and getClippedBoundingBox use.
Mesh_triangleHit(mesh, index, ray) ==
  MollerTrumbore(VertexAt(mesh, 3 * index), VertexAt(mesh, 3 * index + 1),
                 VertexAt(mesh, 3 * index + 2), ray)

\* --------------------------------------------------- KDTree (kdtree.h/.cpp)
\* A scene is the sequence of mesh names registered by addMesh; m_sizeMap
\* holds the running triangle counts, starting with 0.
RECURSIVE SizeMapOf(_)
SizeMapOf(meshes) ==
  IF meshes = << >> THEN <<0>>
  ELSE LET prev == SizeMapOf(SubSeq(meshes, 1, Len(meshes) - 1))
       IN  Append(prev, prev[Len(prev)] +
                        getTriangleCount(MeshCatalogue[meshes[Len(meshes)]]))

\* std::lower_bound: 1-based position of the first element >= key, or
\* Len+1.
RECURSIVE LowerBound(_, _, _)
LowerBound(seq, key, pos) ==
  IF pos > Len(seq) \/ seq[pos] >= key THEN pos ELSE LowerBound(seq, key, pos + 1)

findMeshGlobalIndex(sizeMap, idx) ==
  [mesh |-> LowerBound(sizeMap, idx + 1, 1) - 2, idx |-> idx]

\* findMesh: mesh number (0-based) and the index local to that mesh.
findMesh(sizeMap, idx) ==
  LET it == LowerBound(sizeMap, idx + 1, 1) - 1
  IN  [mesh |-> it - 1, idx |-> idx - sizeMap[it]]

KDTree_getBoundingBox(meshes, sizeMap, index) ==
  LET f == findMesh(sizeMap, index)
  IN  Mesh_getBoundingBox(MeshCatalogue[meshes[f.mesh + 1]], f.idx)

KDTree_getClippedBoundingBox(meshes, sizeMap, index, box) ==
  LET f == findMesh(sizeMap, index)
  IN  Mesh_getClippedBoundingBox(MeshCatalogue[meshes[f.mesh + 1]], f.idx, box)

\* ------------------------------------------------------- KDNode (gkdtree.h)
\* The node word: type bit, indirection bit, relative offset, two axis
\* bits.  A leaf uses every bit below the type bit for its index offset.
WordBits == RelOffsetBits + 4
WordRange == Pow2(WordBits)
ETypeMask == Pow2(WordBits - 1)
EIndirectionMask == Pow2(WordBits - 2)
ELeafOffsetMask == ETypeMask - 1
EInnerAxisMask == 3
EInnerOffsetMask == (WordRange - 1) - EInnerAxisMask - EIndirectionMask
ERelOffsetLimit == Pow2(RelOffsetBits) - 1

RECURSIVE BitAnd(_, _)
BitAnd(a, b) ==
  IF a = 0 \/ b = 0 THEN 0
  ELSE (a % 2) * (b % 2) + 2 * BitAnd(a \div 2, b \div 2)

RECURSIVE BitOr(_, _)
BitOr(a, b) ==
  IF a = 0 THEN b ELSE IF b = 0 THEN a
  ELSE Max2(a % 2, b % 2) + 2 * BitOr(a \div 2, b \div 2)

\* Conversion to the unsigned node word.
ToWord(x) == x % WordRange

\* A leaf whose end lies one entry too far.
initLeafNodeLong(offset, numPrims) ==
  [combined |-> BitOr(ETypeMask, ToWord(offset)),
   end      |-> ToWord(offset + numPrims + 1),
   split    |-> 0]

initLeafNode(offset, numPrims) ==
  [combined |-> BitOr(ETypeMask, ToWord(offset)),
   end      |-> ToWord(offset + numPrims),
   split    |-> 0]

\* [ok |-> FALSE] when the relative offset cannot be represented.
initInnerNode(axis, split, relOffset) ==
  IF relOffset < 0 \/ relOffset > ERelOffsetLimit
    THEN [ok |-> FALSE, node |-> [combined |-> 0, end |-> 0, split |-> 0]]
    ELSE [ok |-> TRUE,
          node |-> [combined |-> BitOr(axis, ToWord(relOffset * 4)),
                    end |-> 0, split |-> split]]

initIndirectionNode(axis, split, indirectionEntry) ==
  [combined |-> BitOr(EIndirectionMask, BitOr(ToWord(indirectionEntry * 4), axis)),
   end |-> 0, split |-> split]

isLeaf(node) == BitAnd(node.combined, ETypeMask) # 0
isIndirection(node) == BitAnd(node.combined, EIndirectionMask) # 0
getPrimStart(node) == BitAnd(node.combined, ELeafOffsetMask)
getPrimEnd(node) == node.end
getIndirectionIndex(node) == BitAnd(node.combined, EInnerOffsetMask) \div 4
\* Offset of the left child relative to the node itself (getLeft).
getLeftOffset(node) == BitAnd(node.combined, EInnerOffsetMask) \div 4
getSplit(node) == node.split
getAxis(node) == BitAnd(node.combined, EInnerAxisMask)

\* getSibling: the node address with bit 3 flipped (this ^ 8).
XorEight(addr) == IF (addr \div 8) % 2 = 0 THEN addr + 8 ELSE addr - 8

\* Byte offset of m_nodes[k] in the aligned allocation if m_nodes were the
\* allocation itself.
UnshiftedAddress(k) == 8 * k

\* Byte offset of m_nodes[k] in the allocation allocAligned returns, which
\* starts on a 16-byte boundary: m_nodes is the allocation shifted by one
\* node, and a KDNode takes 8 bytes.
FinalAddress(k) == 8 * (k + 1)

\* ----------------------------------------------------------- edge events
EEdgeEnd == 0
EEdgePlanar == 1
EEdgeStart == 2

EdgeEvent(type, axis, pos, index) ==
  [pos |-> pos, index |-> index, type |-> type, axis |-> axis]

\* The ordering by axis and position alone.
OrderingWithoutKind(a, b) ==
  IF a.axis # b.axis THEN a.axis < b.axis ELSE a.pos < b.pos

EdgeEventOrdering(a, b) ==
  IF a.axis # b.axis THEN a.axis < b.axis
  ELSE IF a.pos # b.pos THEN a.pos < b.pos
  ELSE a.type < b.type

\* std::merge: the output is filled front to back, taking from 'b' only
\* when its next element is strictly less than the next element of 'a'.
MergeStep(Less(_, _), a, b, st) ==
  IF st.i > Len(a) THEN [st EXCEPT !.out = Append(@, b[st.j]), !.j = @ + 1]
  ELSE IF st.j > Len(b) THEN [st EXCEPT !.out = Append(@, a[st.i]), !.i = @ + 1]
  ELSE IF Less(b[st.j], a[st.i])
    THEN [st EXCEPT !.out = Append(@, b[st.j]), !.j = @ + 1]
    ELSE [st EXCEPT !.out = Append(@, a[st.i]), !.i = @ + 1]

MergeBy(Less(_, _), a, b) ==
  FoldRange(LAMBDA st, k : MergeStep(Less, a, b, st),
            [out |-> << >>, i |-> 1, j |-> 1], 1, Len(a) + Len(b)).out

\* std::sort.  Elements the ordering does not distinguish keep their
\* input order.
RECURSIVE SortBy(_, _)
SortBy(Less(_, _), seq) ==
  IF Len(seq) <= 1 THEN seq
  ELSE LET mid == Len(seq) \div 2
           lo  == SortBy(Less, SubSeq(seq, 1, mid))
           hi  == SortBy(Less, SubSeq(seq, mid + 1, Len(seq)))
       IN  IF lo = lo /\ hi = hi THEN MergeBy(Less, lo, hi) ELSE seq

SortEvents(events) == SortBy(EdgeEventOrdering, events)
MergeEvents(a, b) == MergeBy(EdgeEventOrdering, a, b)

IsSortedEvents(events) ==
  \A i \in 1 .. Len(events) - 1 : ~EdgeEventOrdering(events[i + 1], events[i])

\* std::sort with std::less, and std::unique: the removal of adjacent
\* duplicates.
SortIndices(seq) == SortBy(LAMBDA x, y : x < y, seq)

UniqueSorted(sorted) ==
  FoldRange(LAMBDA acc, i :
              IF acc # << >> /\ acc[Len(acc)] = sorted[i] THEN acc
              ELSE Append(acc, sorted[i]),
            << >>, 1, Len(sorted))

\* ------------------------------------------------------------------ costs
\* A cost is an exact rational n/d (d > 0) or an infinity.  m_traversalCost
\* and m_queryCost are integers, m_emptySpaceBonus is held in tenths.
Cost(n, d) == [kind |-> "fin", n |-> n, d |-> d]
CostInt(k) == Cost(k, 1)
PlusInfinity == [kind |-> "pinf", n |-> 0, d |-> 1]
MinusInfinity == [kind |-> "ninf", n |-> 0, d |-> 1]
\* The float that is not a number: 0 * infinity, infinity - infinity.
NotANumber == [kind |-> "nan", n |-> 0, d |-> 1]

\* a < b.  Finite operands are brought to a common denominator.
CostLess(a, b) ==
  IF a.kind = "nan" \/ b.kind = "nan" THEN FALSE
  ELSE IF a.kind = "pinf" \/ b.kind = "ninf" THEN FALSE
  ELSE IF a.kind = "ninf" \/ b.kind = "pinf" THEN TRUE
  ELSE IF a.d = b.d THEN a.n < b.n
  ELSE IF b.d = 1 THEN a.n < b.n * a.d
  ELSE IF a.d = 1 THEN a.n * b.d < b.n
  ELSE a.n * b.d < b.n * a.d
CostEq(a, b) == ~CostLess(a, b) /\ ~CostLess(b, a)
CostLeq(a, b) == ~CostLess(b, a)

\* SurfaceAreaHeuristic3: the probability of visiting a child of width
\* 'width' along 'axis' is TchNum / BBoxHalfArea(box).
TchNum(box, axis, width) ==
  LET e == BBoxExtents(box)
      b == At(e, (axis + 1) % 3)
      c == At(e, (axis + 2) % 3)
  IN  b * c + (b + c) * width

\* traversalCost + queryCost * (pL * nL + pR * nR), times the empty space
\* bonus when 'bonus' is set; denominator 10 * BBoxHalfArea(box).
SplitCost(env, box, axis, pos, nL, nR, bonus) ==
  LET A  == BBoxHalfArea(box)
      pl == TchNum(box, axis, pos - At(box.min, axis))
      pr == TchNum(box, axis, At(box.max, axis) - pos)
      c  == env.m_traversalCost * A + env.m_queryCost * (pl * nL + pr * nR)
  IN  Cost(c * (IF bonus THEN env.m_emptySpaceBonus ELSE 10), 10 * A)

\* ------------------------------------------------- buildTree: the sweep
SplitCandidate ==
  [cost |-> PlusInfinity, pos |-> 0, axis |-> 0, numLeft |-> 0, numRight |-> 0,
   planarLeft |-> FALSE]

\* Number of consecutive events from position i on with the given axis,
\* position and type.
CountRun(events, i, axis, pos, type) ==
  LET stop == {k \in i .. Len(events) :
                 ~(events[k].pos = pos /\ events[k].axis = axis
                   /\ events[k].type = type)}
  IN  IF stop = {} THEN Len(events) + 1 - i
      ELSE (CHOOSE k \in stop : \A l \in stop : k <= l) - i

\* The candidate at one event position, given the counts left and right
\* of it.
UpdateBest(env, box, best, axis, pos, nL, nR, numPlanar) ==
  IF ~(pos > At(box.min, axis) /\ pos < At(box.max, axis)) THEN best
  ELSE IF numPlanar = 0 THEN
    LET cost == SplitCost(env, box, axis, pos, nL, nR, nL = 0 \/ nR = 0)
    IN  IF CostLess(cost, best.cost)
          THEN [best EXCEPT !.pos = pos, !.axis = axis, !.cost = cost,
                            !.numLeft = nL, !.numRight = nR]
          ELSE best
  ELSE
    LET costPlanarLeft ==
          SplitCost(env, box, axis, pos, nL + numPlanar, nR,
                    nL + numPlanar = 0 \/ nR = 0)
        costPlanarRight ==
          SplitCost(env, box, axis, pos, nL, nR + numPlanar,
                    nL = 0 \/ nR + numPlanar = 0)
    IN  IF CostLess(costPlanarLeft, best.cost) \/ CostLess(costPlanarRight, best.cost)
          THEN IF CostLess(costPlanarLeft, costPlanarRight)
                 THEN [best EXCEPT !.pos = pos, !.axis = axis,
                                   !.cost = costPlanarLeft,
                                   !.numLeft = nL + numPlanar, !.numRight = nR,
                                   !.planarLeft = TRUE]
                 ELSE [best EXCEPT !.pos = pos, !.axis = axis,
                                   !.cost = costPlanarRight,
                                   !.numLeft = nL, !.numRight = nR + numPlanar,
                                   !.planarLeft = FALSE]
          ELSE best

\* One pass of the sweep loop, entered at event 'i'; the loop then skips
\* to the first event behind this position.
SweepStep(env, box, events, st, i) ==
  IF i # st.next THEN st
  ELSE
    LET axis == events[i].axis
        pos  == events[i].pos
        numEnd    == CountRun(events, i, axis, pos, EEdgeEnd)
        numPlanar == CountRun(events, i + numEnd, axis, pos, EEdgePlanar)
        numStart  == CountRun(events, i + numEnd + numPlanar, axis, pos, EEdgeStart)
        nR   == At(st.numRight, axis) - (numPlanar + numEnd)
        nL   == At(st.numLeft, axis)
    IN  [next     |-> i + numEnd + numPlanar + numStart,
         numLeft  |-> SetAt(st.numLeft, axis, nL + numStart + numPlanar),
         numRight |-> SetAt(st.numRight, axis, nR),
         best     |-> UpdateBest(env, box, st.best, axis, pos, nL, nR, numPlanar)]

Sweep(env, box, events, numLeft, numRight, best) ==
  FoldRange(LAMBDA st, i : SweepStep(env, box, events, st, i),
            [next |-> 1, numLeft |-> numLeft, numRight |-> numRight,
             best |-> best],
            1, Len(events)).best

FindBestSplit(env, box, events, primCount) ==
  Sweep(env, box, events, <<0, 0, 0>>, <<primCount, primCount, primCount>>,
        SplitCandidate)

\* ------------------------------------------------------- build contexts
\* Context 0 is the BuildContext of buildInternal, context k > 0 the one of
\* the TreeBuilder with id k-1.  A preliminary node pointer is the pair
\* <<context, position in that context's BlockedVector>>.
EmptyContext ==
  [nodes |-> << >>, indices |-> << >>,
   leafNodeCount |-> 0, nonemptyLeafNodeCount |-> 0, innerNodeCount |-> 0,
   primIndexCount |-> 0, retractedSplits |-> 0, pruned |-> 0]

\* The build state threaded through the recursion: the contexts, the
\* shared indirection table, the builder that took each handed-off node,
\* and the number of jobs handed off so far.
NewWorld(builders) ==
  [ctx |-> [c \in 0 .. builders |-> EmptyContext] @@ << >>,
   m_indirections |-> << >>,
   threadMap |-> << >>,
   jobs |-> 0,
   retractedJobs |-> 0,
   splits |-> {},
   refines |-> {},
   lists |-> {},
   sweeps |-> {},
   entries |-> {}]

UninitialisedNode == [combined |-> 0, end |-> 0, split |-> 0]

ContextStride == 4 * WordRange
NodeAddress(ptr) == ptr[1] * ContextStride + ptr[2]
\* children - node, in nodes.
PtrDiff(children, node) == NodeAddress(children) - NodeAddress(node)

NodeAt(w, ptr) == w.ctx[ptr[1]].nodes[ptr[2] + 1]
SetNode(w, ptr, node) ==
  [w EXCEPT !.ctx[ptr[1]].nodes[ptr[2] + 1] = node]

\* ctx.nodes.allocate(2): the two children are adjacent.
AllocateChildren(w, c) ==
  [w EXCEPT !.ctx[c].nodes = @ \o <<UninitialisedNode, UninitialisedNode>>]

\* initInnerNode, or an indirection table entry when the relative offset
\* is not representable.
InitInner(w, node, children, axis, pos) ==
  LET r == initInnerNode(axis, pos, PtrDiff(children, node))
  IN  IF r.ok THEN SetNode(w, node, r.node)
      ELSE [SetNode(w, node,
                    initIndirectionNode(axis, pos, Len(w.m_indirections)))
              EXCEPT !.m_indirections = Append(@, children)]

\* Indices of the start and planar events of axis 0, in list order.
AxisZeroIndices(events) ==
  FoldRange(LAMBDA st, i :
              IF st.stopped \/ events[i].axis # 0 THEN [st EXCEPT !.stopped = TRUE]
              ELSE IF events[i].type \in {EEdgeStart, EEdgePlanar}
                THEN [st EXCEPT !.out = Append(@, events[i].index)]
              ELSE st,
            [out |-> << >>, stopped |-> FALSE], 1, Len(events)).out

createLeafFromIndices(w, c, node, prims, primCount) ==
  LET cx == w.ctx[c]
      w1 == SetNode(w, node, initLeafNode(Len(cx.indices), primCount))
  IN  IF primCount > 0
        THEN [w1 EXCEPT !.ctx[c].nonemptyLeafNodeCount = @ + 1,
                        !.ctx[c].indices = @ \o prims,
                        !.ctx[c].primIndexCount = @ + primCount,
                        !.ctx[c].leafNodeCount = @ + 1]
        ELSE [w1 EXCEPT !.ctx[c].leafNodeCount = @ + 1]

\* createLeaf(ctx, node, eventStart, eventEnd, primCount)
createLeafEveryEvent(w, c, node, events, primCount) ==
  createLeafFromIndices(w, c, node,
    LET first == SelectSeq(events, LAMBDA e : e.axis = 0)
    IN  [i \in 1 .. Len(first) |-> first[i].index],
    primCount)

createLeafFromEvents(w, c, node, events, primCount) ==
  createLeafFromIndices(w, c, node, AxisZeroIndices(events), primCount)

\* createLeaf(ctx, node, indices, primCount)
createLeaf(w, c, node, prims, primCount) ==
  createLeafFromIndices(w, c, node, SubSeq(prims, 1, primCount), primCount)

createLeafAfterRetraction(w, c, node, start) ==
  LET cx == w.ctx[c]
      indexCount == Len(cx.indices) - start
      temp == SortIndices(SubSeq(cx.indices, start + 1, Len(cx.indices)))
      uniq == UniqueSorted(temp)
      nSeen == Len(uniq)
  IN  [SetNode(w, node, initLeafNode(start, nSeen))
         EXCEPT !.ctx[c].indices = SubSeq(cx.indices, 1, start) \o uniq,
                !.ctx[c].primIndexCount = cx.primIndexCount - indexCount + nSeen,
                !.ctx[c].nonemptyLeafNodeCount = @ + 1,
                !.ctx[c].leafNodeCount = @ + 1]

\* ---------------------------------------------- buildTree: classification
EBothSides == 0
ELeftSide == 1
ERightSide == 2
EBothSidesProcessed == 3

AxisEvents(events, axis) == SelectSeq(events, LAMBDA e : e.axis = axis)

ClassifyPlanarRight(storage, e, best) ==
  IF e.type = EEdgeEnd /\ e.pos <= best.pos
    THEN [storage EXCEPT ![e.index] = ELeftSide]
  ELSE IF e.type = EEdgeStart /\ e.pos >= best.pos
    THEN [storage EXCEPT ![e.index] = ERightSide]
  ELSE IF e.type = EEdgePlanar
    THEN IF e.pos < best.pos
           THEN [storage EXCEPT ![e.index] = ELeftSide]
           ELSE [storage EXCEPT ![e.index] = ERightSide]
  ELSE storage

ClassifyEvent(storage, e, best) ==
  IF e.type = EEdgeEnd /\ e.pos <= best.pos
    THEN [storage EXCEPT ![e.index] = ELeftSide]
  ELSE IF e.type = EEdgeStart /\ e.pos >= best.pos
    THEN [storage EXCEPT ![e.index] = ERightSide]
  ELSE IF e.type = EEdgePlanar
    THEN IF e.pos < best.pos \/ (e.pos = best.pos /\ best.planarLeft)
           THEN [storage EXCEPT ![e.index] = ELeftSide]
         ELSE IF e.pos > best.pos \/ (e.pos = best.pos /\ ~best.planarLeft)
           THEN [storage EXCEPT ![e.index] = ERightSide]
         ELSE storage
  ELSE storage

ClassifyFrom(storage, evs, best) ==
  FoldRange(LAMBDA st, i : ClassifyEvent(st, evs[i], best), storage, 1, Len(evs))

\* The classification storage after the two passes over the events of the
\* split axis, as a function on the primitives of the event list.
Classify(events, best) ==
  LET evs == AxisEvents(events, best.axis)
      prims == {evs[i].index : i \in 1 .. Len(evs)}
  IN  ClassifyFrom([x \in prims |-> EBothSides], evs, best)

\* ------------------------------------------------ buildTree: partitioning
\* The events of one primitive with bounding box 'bbox': a planar event on
\* a flat axis, a start and an end event otherwise.
RECURSIVE EventsOfBBox(_, _, _)
EventsOfBBox(bbox, index, axis) ==
  IF axis > 2 THEN << >>
  ELSE (IF At(bbox.min, axis) = At(bbox.max, axis)
          THEN <<EdgeEvent(EEdgePlanar, axis, At(bbox.min, axis), index)>>
          ELSE <<EdgeEvent(EEdgeStart, axis, At(bbox.min, axis), index),
                 EdgeEvent(EEdgeEnd, axis, At(bbox.max, axis), index)>>)
       \o EventsOfBBox(bbox, index, axis + 1)

EmptyPartition(storage) ==
  [storage |-> storage, leftTemp |-> << >>, rightTemp |-> << >>,
   newLeft |-> << >>, newRight |-> << >>, prunedLeft |-> 0, prunedRight |-> 0]

\* A primitive on both sides is clipped against both child boxes; its
\* events are generated anew for every side on which something is left.
ClipBoth(st, e, clippedLeft, clippedRight) ==
  LET keepLeft  == BBoxIsValid(clippedLeft) /\ BBoxSurfaceArea(clippedLeft) > 0
      keepRight == BBoxIsValid(clippedRight) /\ BBoxSurfaceArea(clippedRight) > 0
  IN  [st EXCEPT
         !.newLeft = IF keepLeft THEN @ \o EventsOfBBox(clippedLeft, e.index, 0)
                     ELSE @,
         !.prunedLeft = IF keepLeft THEN @ ELSE @ + 1,
         !.newRight = IF keepRight THEN @ \o EventsOfBBox(clippedRight, e.index, 0)
                      ELSE @,
         !.prunedRight = IF keepRight THEN @ ELSE @ + 1,
         !.storage[e.index] = EBothSidesProcessed]

\* One iteration of the loop over all events when clipping is enabled.
ClipStep(env, st, e, leftBox, rightBox) ==
  IF st.storage[e.index] = ELeftSide THEN [st EXCEPT !.leftTemp = Append(@, e)]
  ELSE IF st.storage[e.index] = ERightSide
    THEN [st EXCEPT !.rightTemp = Append(@, e)]
  ELSE IF st.storage[e.index] = EBothSides
    THEN ClipBoth(st, e,
           KDTree_getClippedBoundingBox(env.meshes, env.sizeMap, e.index, leftBox),
           KDTree_getClippedBoundingBox(env.meshes, env.sizeMap, e.index, rightBox))
  ELSE st

\* One iteration of the loop over all events when clipping is disabled.
NoClipStep(st, e) ==
  LET classification == st.storage[e.index]
  IN  IF classification = ELeftSide
        THEN [st EXCEPT !.leftTemp = Append(@, e)]
      ELSE IF classification = ERightSide
        THEN [st EXCEPT !.rightTemp = Append(@, e)]
      ELSE IF classification = EBothSides
        THEN [st EXCEPT !.leftTemp = Append(@, e), !.rightTemp = Append(@, e)]
      ELSE st

PartitionFrom(env, st0, events, leftBox, rightBox) ==
  FoldRange(LAMBDA st, i :
              IF env.m_clip THEN ClipStep(env, st, events[i], leftBox, rightBox)
              ELSE NoClipStep(st, events[i]),
            st0, 1, Len(events))

\* The left and right event lists and the numbers of primitives pruned by
\* re-clipping.
PartitionLists(env, st) ==
  CASE st = st ->
    IF env.m_clip
      THEN [left  |-> MergeEvents(st.leftTemp, SortEvents(st.newLeft)),
            right |-> MergeEvents(st.rightTemp, SortEvents(st.newRight)),
            prunedLeft |-> st.prunedLeft, prunedRight |-> st.prunedRight]
      ELSE [left |-> st.leftTemp, right |-> st.rightTemp,
            prunedLeft |-> 0, prunedRight |-> 0]

Partition(env, events, best, leftBox, rightBox) ==
  PartitionLists(env,
    PartitionFrom(env, EmptyPartition(Classify(events, best)), events,
                  leftBox, rightBox))

\* ------------------------------------------------------------- final cost
\* prob * cost, where prob = pn / area and a finite child cost is either an
\* integer or has the half-area of the child box (= pn) as denominator.
ProbTimes(pn, area, cost) ==
  IF cost.kind # "fin" THEN (IF pn = 0 THEN NotANumber ELSE cost)
  ELSE IF cost.d = pn THEN Cost(cost.n, area)
  ELSE IF cost.d = 1 THEN Cost(pn * cost.n, area)
  ELSE Cost(pn * cost.n, area * cost.d)

CostAdd(a, b) ==
  IF a.kind = "nan" \/ b.kind = "nan" THEN NotANumber
  ELSE IF a.kind # "fin"
    THEN (IF b.kind # "fin" /\ b.kind # a.kind THEN NotANumber ELSE a)
  ELSE IF b.kind # "fin" THEN b
  ELSE IF a.d = b.d THEN Cost(a.n + b.n, a.d)
  ELSE Cost(a.n * b.d + b.n * a.d, a.d * b.d)

\* m_traversalCost + (prob.first * leftCost + prob.second * rightCost)
FinalCost(env, box, axis, pos, leftCost, rightCost) ==
  LET A == BBoxHalfArea(box)
  IN  CostAdd(Cost(env.m_traversalCost * A, A),
              CostAdd(ProbTimes(TchNum(box, axis, pos - At(box.min, axis)), A,
                                leftCost),
                      ProbTimes(TchNum(box, axis, At(box.max, axis) - pos), A,
                                rightCost)))

\* The "bad refines" rule of buildTree: TRUE when a leaf is created.
BadRefineLeaf(env, best, leafCost, primCount, badRefines) ==
  /\ CostLeq(leafCost, best.cost)
  /\ \/ CostLess(CostInt(4 * leafCost.n), best.cost) /\ primCount < 16
     \/ badRefines >= env.m_maxBadRefines
     \/ best.cost.kind = "pinf"

\* The handed-off subtrees below a split of context c that is undone: their
\* root is one of the split's two children, the last nodes allocated before
\* nodePos, or a node allocated after them.
RewoundJobs(w, c, nodePos) ==
  Cardinality({i \in 1 .. Len(w.threadMap) :
                 w.threadMap[i][1][1] = c /\ w.threadMap[i][1][2] >= nodePos - 2})

\* Undo a split: drop the nodes allocated below it, restore the counters
\* and turn the node into a leaf over the distinct indices of the subtree.
Retract(w, c, node, before) ==
  createLeafAfterRetraction(
    [w EXCEPT !.retractedJobs = @ + RewoundJobs(w, c, before.nodePos),
              !.ctx[c].nodes = SubSeq(@, 1, before.nodePos),
              !.ctx[c].retractedSplits = @ + 1,
              !.ctx[c].leafNodeCount = before.leafNodeCount,
              !.ctx[c].nonemptyLeafNodeCount = before.nonemptyLeafNodeCount,
              !.ctx[c].innerNodeCount = before.innerNodeCount],
    c, node, before.indexPos)

\* The positions and counters recorded right after the children were
\* allocated.
BeforeSplit(w, c) ==
  [nodePos |-> Len(w.ctx[c].nodes), indexPos |-> Len(w.ctx[c].indices),
   leafNodeCount |-> w.ctx[c].leafNodeCount,
   nonemptyLeafNodeCount |-> w.ctx[c].nonemptyLeafNodeCount,
   innerNodeCount |-> w.ctx[c].innerNodeCount]

\* Every split is kept.
KeepAlways(env, finalCost, leafCost) == TRUE

\* finalCost <= primCount * m_queryCost keeps the split.
KeepSplitOrEqual(env, finalCost, leafCost) ==
  ~env.m_retract \/ CostLeq(finalCost, leafCost)

\* finalCost < primCount * m_queryCost keeps the split.
KeepSplit(env, finalCost, leafCost) ==
  ~env.m_retract \/ CostLess(finalCost, leafCost)

\* --------------------------------------------------------------- buildTree
LeafCost(env, primCount) == CostInt(primCount * env.m_queryCost)
LeftBox(box, split) == [box EXCEPT !.max = SetAt(@, split.axis, split.pos)]
RightBox(box, split) == [box EXCEPT !.min = SetAt(@, split.axis, split.pos)]
\* badRefines is never incremented.
RefinesUnchanged(env, best, primCount, badRefines) == badRefines

Refines(env, best, primCount, badRefines) ==
  IF CostLeq(LeafCost(env, primCount), best.cost) THEN badRefines + 1
  ELSE badRefines

\* The children are allocated in 'w1': record the positions and counters,
\* then initialise the inner node.
SplitNode(w1, c, node, children, split) ==
  [w |-> [InitInner(w1, node, children, split.axis, split.pos)
            EXCEPT !.ctx[c].innerNodeCount = @ + 1],
   before |-> BeforeSplit(w1, c)]

\* The elements of a sequence.
Range(seq) == {seq[i] : i \in 1 .. Len(seq)}

\* How finalCost compares with the cost of a leaf.
Compare(finalCost, leafCost) ==
  IF CostLess(finalCost, leafCost) THEN "less"
  ELSE IF CostLess(leafCost, finalCost) THEN "greater"
  ELSE IF finalCost.kind = "nan" \/ leafCost.kind = "nan" THEN "unordered"
  ELSE "equal"

\* What the bad-refines test of a node did (observation only): 'outcome'
\* is "leaf", "split" or "transition", 'passed' the badRefines value the
\* children are given.
RefineRecord(env, stage, best, primCount, badRefines, outcome, passed) ==
  [stage |-> stage,
   order |-> Compare(best.cost, LeafCost(env, primCount)),
   costly |-> CostLess(CostInt(4 * LeafCost(env, primCount).n), best.cost),
   small |-> primCount < 16,
   exhausted |-> badRefines >= env.m_maxBadRefines,
   infinite |-> best.cost.kind = "pinf",
   outcome |-> outcome,
   added |-> passed - badRefines]

Noted(rec, r) == [r EXCEPT !.w.refines = @ \cup {rec}]

\* What a final decision did (observation only): 'w' is the build state
\* when both children are built, 'after' the state the decision leaves.
SplitRecord(env, stage, c, node, before, w, after, finalCost, leafCost) ==
  LET leaf   == NodeAt(after, node)
      below  == SubSeq(w.ctx[c].indices, before.indexPos + 1,
                       Len(w.ctx[c].indices))
      stored == SubSeq(after.ctx[c].indices, before.indexPos + 1,
                       Len(after.ctx[c].indices))
  IN  [stage |-> stage, retract |-> env.m_retract,
       order |-> Compare(finalCost, leafCost),
       leaf |-> isLeaf(leaf),
       nodesKept |-> Len(after.ctx[c].nodes) - before.nodePos,
       union |-> /\ Range(stored) = Range(below)
                 /\ Cardinality(Range(stored)) = Len(stored),
       held |-> /\ isLeaf(leaf)
                /\ getPrimStart(leaf) = before.indexPos
                /\ getPrimEnd(leaf) = Len(after.ctx[c].indices)]

Record(env, stage, c, node, before, w, after, finalCost, leafCost) ==
  [after EXCEPT !.splits = @ \cup
     {SplitRecord(env, stage, c, node, before, w, after, finalCost, leafCost)}]

\* Both children are built: keep the split or tear the subtree down.
Decide(env, stage, c, node, before, w, finalCost, leafCost) ==
  IF KeepSplit(env, finalCost, leafCost)
    THEN [w |-> Record(env, stage, c, node, before, w, w, finalCost, leafCost),
          cost |-> finalCost]
    ELSE [w |-> Record(env, stage, c, node, before, w,
                       Retract(w, c, node, before), finalCost, leafCost),
          cost |-> leafCost]

FinishSplit(env, stage, c, node, box, primCount, split, before, leftCost, r) ==
  CASE r = r ->
    Decide(env, stage, c, node, before, r.w,
           FinalCost(env, box, split.axis, split.pos, leftCost, r.cost),
           LeafCost(env, primCount))

\* The O(n log n) builder.  'env' holds the parameters and the scene, 'w'
\* the build state, 'c' the context the calling thread works in.  The
\* result is the new build state and the cost returned.  The operators
\* below are the successive parts of its body, last part first.
RECURSIVE buildTree(_, _, _, _, _, _, _, _, _)

\* The recursion into the right child.
buildTreeRight(env, c, depth, node, box, primCount, refines, best, part, children, before, l) ==
  CASE l = l ->
    FinishSplit(env, "nlogn", c, node, box, primCount, best, before, l.cost,
      buildTree(env, l.w, c, depth + 1, <<c, children[2] + 1>>,
                RightBox(box, best), part.right,
                best.numRight - part.prunedRight, refines))

\* The recursion into the left child.
buildTreeLeft(env, c, depth, node, box, primCount, refines, best, part, children, prep) ==
  CASE prep = prep ->
    buildTreeRight(env, c, depth, node, box, primCount, refines, best, part,
                   children, prep.before,
      buildTree(env, prep.w, c, depth + 1, children, LeftBox(box, best),
                part.left, best.numLeft - part.prunedLeft, refines))

\* The events are partitioned: allocate and initialise the nodes.
\* end < planar < start
KindRank(type) ==
  CASE type = EEdgeEnd -> 0 [] type = EEdgePlanar -> 1 [] OTHER -> 2

\* 'a' comes strictly before 'b' by axis, then position, then kind.
Precedes(a, b) ==
  \/ a.axis < b.axis
  \/ a.axis = b.axis /\ a.pos < b.pos
  \/ a.axis = b.axis /\ a.pos = b.pos /\ KindRank(a.type) < KindRank(b.type)

EventsInOrder(events) ==
  \A i \in 1 .. Len(events) - 1 : ~Precedes(events[i + 1], events[i])

\* An event list handed to buildTree (observation only).
ListRecord(env, origin, events) ==
  [origin |-> origin, clip |-> env.m_clip, size |-> Len(events),
   axes |-> {events[i].axis : i \in 1 .. Len(events)},
   kinds |-> {events[i].type : i \in 1 .. Len(events)},
   inOrder |-> EventsInOrder(events)]

\* What one split of the event sweep did with the primitives of its node:
\* the classification of the primitives planar on the split plane, the lists
\* their events went to, and the numbers of primitives of every class next
\* to the counts of the split candidate.
EventPrims(events) == {events[i].index : i \in 1 .. Len(events)}

PlanarOnSplit(events, best) ==
  {events[i].index : i \in {j \in 1 .. Len(events) :
                               /\ events[j].axis = best.axis
                               /\ events[j].type = EEdgePlanar
                               /\ events[j].pos = best.pos}}

SweepRecord(env, events, best, part, storage) ==
  [clip |-> env.m_clip, planarLeft |-> best.planarLeft,
   onPlane |-> Cardinality(PlanarOnSplit(events, best)),
   sides |-> {storage[x] : x \in PlanarOnSplit(events, best)},
   inLeft |-> Cardinality(PlanarOnSplit(events, best) \cap EventPrims(part.left)),
   inRight |-> Cardinality(PlanarOnSplit(events, best) \cap EventPrims(part.right)),
   numLeft |-> best.numLeft, numRight |-> best.numRight,
   primsLeft |-> Cardinality({x \in DOMAIN storage : storage[x] = ELeftSide}),
   primsRight |-> Cardinality({x \in DOMAIN storage : storage[x] = ERightSide}),
   primsBoth |-> Cardinality({x \in DOMAIN storage : storage[x] = EBothSides}),
   prunedLeft |-> part.prunedLeft, prunedRight |-> part.prunedRight,
   leftPrims |-> Cardinality(EventPrims(part.left)),
   rightPrims |-> Cardinality(EventPrims(part.right))]

Swept(rec, r) == [r EXCEPT !.w.sweeps = @ \cup {rec}]

\* The events of primitive x on one axis are a single planar event, or a
\* start and an end event.
AxisShape(events, x, axis) ==
  LET own == SelectSeq(events, LAMBDA e : e.index = x /\ e.axis = axis)
      kinds == [i \in 1 .. Len(own) |-> own[i].type]
  IN  \/ kinds = <<EEdgePlanar>>
      \/ Len(own) = 2 /\ Range(kinds) = {EEdgeStart, EEdgeEnd}

\* What a node of the event sweep was given: its primitive count next to
\* the primitives of its event list, and the indices a leaf made of it
\* appends.
EntryRecord(env, events, primCount, leaf, appended) ==
  [clip |-> env.m_clip, leaf |-> leaf, primCount |-> primCount,
   distinct |-> Cardinality(EventPrims(events)),
   shaped |-> \A x \in EventPrims(events) : \A axis \in 0 .. 2 :
                AxisShape(events, x, axis),
   appended |-> Len(appended),
   appendedPrims |-> Cardinality(Range(appended)),
   ownPrims |-> Range(appended) = EventPrims(events)]

Entered(rec, r) == [r EXCEPT !.w.entries = @ \cup {rec}]

\* The indices context c holds in 'after' beyond those it held in 'before'.
Appended(before, after, c) ==
  SubSeq(after.ctx[c].indices, Len(before.ctx[c].indices) + 1,
         Len(after.ctx[c].indices))

LeafEntered(env, w, c, events, primCount, r) ==
  Entered(EntryRecord(env, events, primCount, TRUE, Appended(w, r.w, c)), r)

buildTreeChildren(env, w, c, depth, node, box, primCount, refines, best, part) ==
  CASE part = part ->
    buildTreeLeft(env, c, depth, node, box, primCount, refines, best, part,
      <<c, Len(w.ctx[c].nodes)>>,
      SplitNode([AllocateChildren(w, c)
                   EXCEPT !.ctx[c].pruned = @ + part.prunedLeft + part.prunedRight,
                          !.lists = @ \cup {ListRecord(env, "left", part.left),
                                            ListRecord(env, "right", part.right)}],
                c, node, <<c, Len(w.ctx[c].nodes)>>, best))

\* The best split is known: bad refines, classification and partition.
buildTreeSplit(env, w, c, depth, node, box, events, primCount, badRefines, best) ==
  CASE best = best ->
    IF BadRefineLeaf(env, best, LeafCost(env, primCount), primCount, badRefines)
      THEN LeafEntered(env, w, c, events, primCount,
             Noted(RefineRecord(env, "nlogn", best, primCount, badRefines,
                                "leaf", badRefines),
               [w |-> createLeafFromEvents(w, c, node, events, primCount),
                cost |-> LeafCost(env, primCount)]))
      ELSE LET part == Partition(env, events, best, LeftBox(box, best),
                                 RightBox(box, best))
           IN  Entered(EntryRecord(env, events, primCount, FALSE, << >>),
               Swept(SweepRecord(env, events, best, part, Classify(events, best)),
                 Noted(RefineRecord(env, "nlogn", best, primCount, badRefines,
                                    "split",
                                    Refines(env, best, primCount, badRefines)),
                   buildTreeChildren(env, w, c, depth, node, box, primCount,
                     Refines(env, best, primCount, badRefines), best, part))))

buildTree(env, w, c, depth, node, box, events, primCount, badRefines) ==
  IF primCount <= env.m_stopPrims \/ depth >= env.m_maxDepth
    THEN LeafEntered(env, w, c, events, primCount,
           [w |-> createLeafFromEvents(w, c, node, events, primCount),
            cost |-> LeafCost(env, primCount)])
    ELSE buildTreeSplit(env, w, c, depth, node, box, events, primCount,
                        badRefines, FindBestSplit(env, box, events, primCount))

\* createEventList: the events of the primitives 'prims', unsorted, and the
\* number of primitives that were not pruned.
createEventStep(env, st, primIndex, bbox) ==
  IF env.m_clip /\ (~BBoxIsValid(bbox) \/ BBoxSurfaceArea(bbox) = 0)
    THEN st
    ELSE [events |-> st.events \o EventsOfBBox(bbox, primIndex, 0),
          actualPrimCount |-> st.actualPrimCount + 1]

createEventList(env, box, prims) ==
  FoldRange(LAMBDA st, i :
              createEventStep(env, st, prims[i],
                IF env.m_clip
                  THEN KDTree_getClippedBoundingBox(env.meshes, env.sizeMap,
                                                    prims[i], box)
                  ELSE KDTree_getBoundingBox(env.meshes, env.sizeMap, prims[i])),
            [events |-> << >>, actualPrimCount |-> 0], 1, Len(prims))

\* -------------------------------------------------------------- MinMaxBins
\* (int64) ((x - min) * invBinSize), clamped to [0, binCount-1].  The bin
\* size is extent / binCount.  On a flat axis the product is 0 * infinity
\* and the clamped conversion yields bin 0.
BinIndex(x, lo, extent, binCount) ==
  IF extent = 0 THEN 0 ELSE TruncDiv((x - lo) * binCount, extent)
ClampBin(idx, binCount) == Max2(0, Min2(idx, binCount - 1))

\* m_minBins / m_maxBins after bin(): for every axis and bin the number of
\* primitives whose bounding box starts / ends in that bin.
MinMaxBins_bin(env, tight, prims, primCount) ==
  LET boxOf(i) == KDTree_getBoundingBox(env.meshes, env.sizeMap, prims[i])
      count(axis, b, useMax) ==
        Cardinality({i \in 1 .. primCount :
          ClampBin(BinIndex(At(IF useMax THEN boxOf(i).max ELSE boxOf(i).min,
                               axis),
                            At(tight.min, axis),
                            At(BBoxExtents(tight), axis), env.m_minMaxBins),
                   env.m_minMaxBins) = b})
  IN  [m_minBins |-> [axis \in Axes |->
                        [b \in 0 .. env.m_minMaxBins - 1 |-> count(axis, b, FALSE)]],
       m_maxBins |-> [axis \in Axes |->
                        [b \in 0 .. env.m_minMaxBins - 1 |-> count(axis, b, TRUE)]]]

\* traversalCost + queryCost * (pL * numLeft + pR * numRight) at the right
\* boundary of bin i; the widths are multiples of extent / binCount, so
\* the denominator is binCount * BBoxHalfArea(tight).
BinCost(env, tight, axis, i, numLeft, numRight) ==
  LET n  == env.m_minMaxBins
      e  == BBoxExtents(tight)
      b  == At(e, (axis + 1) % 3)
      c  == At(e, (axis + 2) % 3)
      ea == At(e, axis)
      pl == b * c * n + (b + c) * (i + 1) * ea
      pr == b * c * n + (b + c) * (n - (i + 1)) * ea
      A  == BBoxHalfArea(tight)
  IN  Cost(env.m_traversalCost * A * n + env.m_queryCost * (pl * numLeft + pr * numRight),
           A * n)

\* The sweep over the bin boundaries of all axes.  'acc' carries the best
\* candidate and its left bin.
BinSweepStep(env, tight, bins, st, axis, i) ==
  LET nl   == (IF i = 0 THEN 0 ELSE st.numLeft) + bins.m_minBins[axis][i]
      nr   == (IF i = 0 THEN st.primCount ELSE st.numRight) - bins.m_maxBins[axis][i]
      cost == BinCost(env, tight, axis, i, nl, nr)
  IN  IF CostLess(cost, st.candidate.cost)
        THEN [st EXCEPT !.numLeft = nl, !.numRight = nr,
                        !.candidate.cost = cost, !.candidate.axis = axis,
                        !.candidate.numLeft = nl, !.candidate.numRight = nr,
                        !.leftBin = i]
        ELSE [st EXCEPT !.numLeft = nl, !.numRight = nr]

\* for (axis = 0 .. 2) for (i = 0 .. binCount - 2)
BinSweep(env, tight, bins, primCount) ==
  LET perAxis == env.m_minMaxBins - 1
  IN  FoldRange(LAMBDA st, k :
                  BinSweepStep(env, tight, bins, st, k \div perAxis, k % perAxis),
                [candidate |-> SplitCandidate, leftBin |-> 0,
                 primCount |-> primCount, numLeft |-> 0, numRight |-> primCount],
                0, 3 * perAxis - 1)

\* The binary search for the last position still classified into leftBin.
\* Positions are fixed-point, so nextafterf advances by one unit.
RECURSIVE SplitSearch(_, _, _, _, _, _, _)
SplitSearch(lo, extent, binCount, leftBin, left, right, it) ==
  LET split   == left + TruncDiv(right - left, 2)
      idx     == BinIndex(split, lo, extent, binCount)
      idxNext == BinIndex(split + 1, lo, extent, binCount)
  IN  IF idx = leftBin /\ idxNext = leftBin + 1 THEN [split |-> split, ok |-> TRUE]
      ELSE IF Abs(idx - idxNext) > 1 \/ it + 1 > 50
        THEN [split |-> split, ok |-> FALSE]
      ELSE IF idx <= leftBin
        THEN SplitSearch(lo, extent, binCount, leftBin, split, right, it + 1)
        ELSE SplitSearch(lo, extent, binCount, leftBin, left, split, it + 1)

\* The candidate with its position: +infinity cost when no position was
\* found or the position lies on the boundary of the box.
PositionedSplit(cand, lo, hi, found) ==
  CASE found = found ->
    [cand EXCEPT
       !.pos = found.split,
       !.cost = IF ~found.ok \/ found.split <= lo \/ found.split >= hi
                  THEN PlusInfinity ELSE @]

SplitOfBin(env, tight, acc) ==
  CASE acc = acc ->
    LET axis    == acc.candidate.axis
        lo      == At(tight.min, axis)
        hi      == At(tight.max, axis)
        extent  == hi - lo
        n       == env.m_minMaxBins
        split0  == lo + TruncDiv((acc.leftBin + 1) * extent, n)
        direct  == /\ BinIndex(split0, lo, extent, n) = acc.leftBin
                   /\ BinIndex(split0 + 1, lo, extent, n) = acc.leftBin + 1
    IN  PositionedSplit(acc.candidate, lo, hi,
          IF extent = 0 THEN [split |-> lo, ok |-> FALSE]
          ELSE IF direct THEN [split |-> split0, ok |-> TRUE]
          ELSE SplitSearch(lo, extent, n, acc.leftBin, lo, hi, 0))

MinMaxBins_minimizeCost(env, tight, bins, primCount) ==
  SplitOfBin(env, tight, BinSweep(env, tight, bins, primCount))

\* One iteration of the partition loop of the min-max stage.
BinPartitionStep(env, st, primIndex, axis, splitPos) ==
  LET bbox == KDTree_getBoundingBox(env.meshes, env.sizeMap, primIndex)
  IN  IF At(bbox.max, axis) <= splitPos
        THEN [st EXCEPT !.leftBounds = BBoxExpandBy(@, bbox),
                        !.leftIndices = Append(@, primIndex)]
      ELSE IF At(bbox.min, axis) > splitPos
        THEN [st EXCEPT !.rightBounds = BBoxExpandBy(@, bbox),
                        !.rightIndices = Append(@, primIndex)]
      ELSE [st EXCEPT !.leftBounds = BBoxExpandBy(@, bbox),
                      !.rightBounds = BBoxExpandBy(@, bbox),
                      !.leftIndices = Append(@, primIndex),
                      !.rightIndices = Append(@, primIndex)]

BinPartitionFrom(env, st0, prims, primCount, axis, splitPos) ==
  FoldRange(LAMBDA st, i : BinPartitionStep(env, st, prims[i], axis, splitPos),
            st0, 1, primCount)

\* Cost of the split moved to 'pos', with the counts found by the
\* partition; denominator BBoxHalfArea(tight).
SnapCost(env, tight, axis, pos, numLeft, numRight) ==
  LET A == BBoxHalfArea(tight)
  IN  Cost(env.m_traversalCost * A
           + env.m_queryCost
             * (TchNum(tight, axis, pos - At(tight.min, axis)) * numLeft
                + TchNum(tight, axis, At(tight.max, axis) - pos) * numRight),
           A)

\* partition(): tight bounds and index lists of both children, and the
\* split candidate with its position moved onto one of the bounds when
\* there is space between them.
SnapSplit(env, tight, split, st) ==
  CASE st = st ->
    LET axis == split.axis
        lb0 == BBoxClip(st.leftBounds, tight)
        rb0 == BBoxClip(st.rightBounds, tight)
        lmax == Min2(At(lb0.max, axis), split.pos)
        rmin == Max2(At(rb0.min, axis), split.pos)
        numLeft == Len(st.leftIndices)
        numRight == Len(st.rightIndices)
        cost1 == SnapCost(env, tight, axis, lmax, numLeft, numRight)
        cost2 == SnapCost(env, tight, axis, rmin, numLeft, numRight)
        moved == IF lmax = rmin THEN split
                 ELSE IF CostLeq(cost1, cost2)
                   THEN [split EXCEPT !.cost = cost1, !.pos = lmax]
                   ELSE [split EXCEPT !.cost = cost2, !.pos = rmin]
    IN  [leftBounds   |-> [lb0 EXCEPT !.max = SetAt(@, axis, Min2(lmax, moved.pos))],
         leftIndices  |-> st.leftIndices,
         rightBounds  |-> [rb0 EXCEPT !.min = SetAt(@, axis, Max2(rmin, moved.pos))],
         rightIndices |-> st.rightIndices,
         split        |-> moved]

MinMaxBins_partition(env, tight, prims, primCount, split) ==
  SnapSplit(env, tight, split,
    BinPartitionFrom(env,
      [leftBounds |-> BBoxReset, rightBounds |-> BBoxReset,
       leftIndices |-> << >>, rightIndices |-> << >>],
      prims, primCount, split.axis, split.pos))

\* -------------------------------------------------------- transitionToNLogN
\* In a parallel build the subtree is handed to a builder and -infinity is
\* returned; the builder that takes the j-th job is env.assign[j].  The
\* builder sorts its copy of the events and runs buildTree in its own
\* context.
JobTaker(env, w) == env.assign[(w.jobs % Len(env.assign)) + 1]

\* The caller gets the cost of the subtree back.
HandedOffAtCost(env, r) == r

\* What the caller of a handed-off job gets back.
HandedOff(env, r) ==
  CASE r = r ->
    IF env.m_parallelBuild THEN [w |-> r.w, cost |-> MinusInfinity] ELSE r

transitionBuild(env, w, c, depth, node, box, badRefines, ev) ==
  CASE ev = ev ->
    HandedOff(env,
      buildTree(env,
                IF env.m_parallelBuild
                  THEN [w EXCEPT !.threadMap = Append(@, <<node, JobTaker(env, w)>>),
                                 !.jobs = @ + 1,
                                 !.lists = @ \cup
                                   {ListRecord(env, "job", SortEvents(ev.events))}]
                  ELSE [w EXCEPT !.lists = @ \cup
                          {ListRecord(env, "transition", SortEvents(ev.events))}],
                IF env.m_parallelBuild THEN JobTaker(env, w) + 1 ELSE c,
                depth, node, box, SortEvents(ev.events), ev.actualPrimCount,
                badRefines))

transitionToNLogN(env, w, c, depth, node, box, prims, primCount, badRefines) ==
  transitionBuild(env, w, c, depth, node, box, badRefines,
                  createEventList(env, box, SubSeq(prims, 1, primCount)))

\* The "bad refines" rule of buildTreeMinMax: TRUE when a leaf is created.
BadRefineLeafMinMax(env, best, leafCost, primCount, badRefines) ==
  /\ CostLeq(leafCost, best.cost)
  /\ \/ CostLess(CostInt(4 * leafCost.n), best.cost) /\ primCount < 16
     \/ badRefines >= env.m_maxBadRefines

\* ----------------------------------------------------------- buildTreeMinMax
\* The min-max binning builder; its parts are given last part first.
RECURSIVE buildTreeMinMax(_, _, _, _, _, _, _, _, _, _)

minMaxRight(env, c, depth, node, box, primCount, refines, part, children, before, l) ==
  CASE l = l ->
    FinishSplit(env, "minmax", c, node, box, primCount, part.split, before,
                l.cost,
      buildTreeMinMax(env, l.w, c, depth + 1, <<c, children[2] + 1>>,
                      RightBox(box, part.split), part.rightBounds,
                      part.rightIndices, part.split.numRight, refines))

minMaxLeft(env, c, depth, node, box, primCount, refines, part, children, prep) ==
  CASE prep = prep ->
    minMaxRight(env, c, depth, node, box, primCount, refines, part, children,
                prep.before,
      buildTreeMinMax(env, prep.w, c, depth + 1, children,
                      LeftBox(box, part.split), part.leftBounds,
                      part.leftIndices, part.split.numLeft, refines))

minMaxChildren(env, w, c, depth, node, box, primCount, refines, part) ==
  CASE part = part ->
    minMaxLeft(env, c, depth, node, box, primCount, refines, part,
      <<c, Len(w.ctx[c].nodes)>>,
      SplitNode(AllocateChildren(w, c), c, node, <<c, Len(w.ctx[c].nodes)>>,
                part.split))

minMaxSplit(env, w, c, depth, node, box, tight, prims, primCount, badRefines, best) ==
  CASE best = best ->
    IF best.cost.kind = "pinf"
      THEN Noted(RefineRecord(env, "minmax", best, primCount, badRefines,
                              "transition", badRefines),
             transitionToNLogN(env, w, c, depth, node, box, prims, primCount,
                               badRefines))
    ELSE IF BadRefineLeafMinMax(env, best, LeafCost(env, primCount), primCount,
                                badRefines)
      THEN Noted(RefineRecord(env, "minmax", best, primCount, badRefines,
                              "leaf", badRefines),
             [w |-> createLeaf(w, c, node, prims, primCount),
              cost |-> LeafCost(env, primCount)])
    ELSE Noted(RefineRecord(env, "minmax", best, primCount, badRefines, "split",
                            Refines(env, best, primCount, badRefines)),
           minMaxChildren(env, w, c, depth, node, box, primCount,
             Refines(env, best, primCount, badRefines),
             MinMaxBins_partition(env, tight, prims, primCount, best)))

buildTreeMinMax(env, w, c, depth, node, box, tight, prims, primCount, badRefines) ==
  IF primCount <= env.m_stopPrims \/ depth >= env.m_maxDepth
    THEN [w |-> createLeaf(w, c, node, prims, primCount),
          cost |-> LeafCost(env, primCount)]
  ELSE IF primCount <= env.m_exactPrimThreshold
    THEN transitionToNLogN(env, w, c, depth, node, box, prims, primCount,
                           badRefines)
  ELSE minMaxSplit(env, w, c, depth, node, box, tight, prims, primCount,
         badRefines,
         MinMaxBins_minimizeCost(env, tight,
           MinMaxBins_bin(env, tight, prims, primCount), primCount))

\* ----------------------------------------------------- compactification
\* The final node array is m_nodes[0 .. m_nodeCount-1]; the aligned
\* allocation holds one more node in front of it.  'Unwritten' marks an
\* index slot that was allocated and never assigned.
Unwritten == -1

\* Left child of a preliminary inner node.
PrelimLeft(w, ptr) ==
  LET node == NodeAt(w, ptr)
  IN  IF ~isIndirection(node) THEN <<ptr[1], ptr[2] + getLeftOffset(node)>>
      ELSE w.m_indirections[getIndirectionIndex(node) + 1]

\* The builder whose context holds the subtree below 'ptr', or -1.
RECURSIVE ThreadMapFind(_, _, _)
ThreadMapFind(threadMap, ptr, i) ==
  IF i > Len(threadMap) THEN -1
  ELSE IF threadMap[i][1] = ptr THEN threadMap[i][2]
  ELSE ThreadMapFind(threadMap, ptr, i + 1)

\* Copy context->indices[primStart .. primEnd-1] to m_indices[indexPtr ..].
CopyIndices(dst, src, primStart, primEnd, indexPtr) ==
  [k \in 1 .. Len(dst) |->
     IF k - 1 >= indexPtr /\ k - 1 < indexPtr + (primEnd - primStart)
       THEN src[primStart + (k - 1 - indexPtr) + 1]
       ELSE dst[k]]

\* One iteration of the loop that rewrites the tree.  st.failed is set
\* when a relative pointer cannot be represented.
\* The node is written as an indirection node and the walk goes on.
CompactIndirection(st, top, node) ==
  [st EXCEPT !.stack = SubSeq(st.stack, 1, Len(st.stack) - 1),
             !.nodePtr = @ + 2,
             !.m_nodes[top.target + 1] =
                initIndirectionNode(getAxis(node), getSplit(node), 0)]

\* "Cannot represent relative pointer": the walk ends with the exception.
CompactFailure(st, top, node) ==
  [st EXCEPT !.stack = SubSeq(st.stack, 1, Len(st.stack) - 1),
             !.nodePtr = @ + 2, !.failed = TRUE]

CompactStep(w, st) ==
  LET top     == st.stack[Len(st.stack)]
      rest    == SubSeq(st.stack, 1, Len(st.stack) - 1)
      node    == NodeAt(w, top.node)
      found   == ThreadMapFind(w.threadMap, top.node, 1)
      context == IF found # -1 THEN found + 1 ELSE top.context
  IN  IF isLeaf(node)
        THEN LET primStart == getPrimStart(node)
                 primEnd == getPrimEnd(node)
                 primsInLeaf == primEnd - primStart
             IN  [st EXCEPT
                    !.stack = rest,
                    !.m_nodes[top.target + 1] = initLeafNode(st.indexPtr, primsInLeaf),
                    !.m_indices = CopyIndices(@, w.ctx[context].indices,
                                              primStart, primEnd, st.indexPtr),
                    !.indexPtr = @ + primsInLeaf]
        ELSE LET left == PrelimLeft(w, top.node)
                 children == st.nodePtr
                 r == initInnerNode(getAxis(node), getSplit(node),
                                    children - top.target)
             IN  IF ~r.ok
                   THEN CompactFailure(st, top, node)
                   ELSE [st EXCEPT
                           !.nodePtr = @ + 2,
                           !.m_nodes[top.target + 1] = r.node,
                           !.stack = rest \o
                             << [node |-> <<left[1], left[2] + 1>>,
                                 target |-> children + 1, context |-> context],
                                [node |-> left, target |-> children,
                                 context |-> context] >>]

RECURSIVE CompactLoop(_, _)
CompactLoop(w, st) ==
  IF st.stack = << >> \/ st.failed THEN st ELSE CompactLoop(w, CompactStep(w, st))

Compactify(w, prelimRoot, nodeCount, indexCount) ==
  CompactLoop(w,
    [stack |-> << [node |-> prelimRoot, target |-> 0, context |-> 0] >>,
     m_nodes |-> [k \in 1 .. nodeCount |-> UninitialisedNode],
     m_indices |-> [k \in 1 .. indexCount |-> Unwritten],
     nodePtr |-> 1, indexPtr |-> 0, failed |-> FALSE])

\* accumulateStatisticsFrom over all builder contexts.
RECURSIVE SumCtx(_, _, _)
SumCtx(w, c, field) ==
  IF c < 0 THEN 0
  ELSE (CASE field = "leaf"  -> w.ctx[c].leafNodeCount
          [] field = "inner" -> w.ctx[c].innerNodeCount
          [] field = "nonempty" -> w.ctx[c].nonemptyLeafNodeCount
          [] field = "retracted" -> w.ctx[c].retractedSplits
          [] field = "pruned" -> w.ctx[c].pruned
          [] OTHER -> w.ctx[c].primIndexCount)
       + SumCtx(w, c - 1, field)

\* The inner nodes, leaves and leaf entries of the preliminary tree below
\* 'ptr', found by following the child pointers through the contexts.
RECURSIVE Reachable(_, _)
Reachable(w, ptr) ==
  IF isLeaf(NodeAt(w, ptr))
    THEN [inner |-> 0, leaf |-> 1,
          entries |-> getPrimEnd(NodeAt(w, ptr)) - getPrimStart(NodeAt(w, ptr))]
    ELSE LET left == PrelimLeft(w, ptr)
             l == Reachable(w, left)
             r == Reachable(w, <<left[1], left[2] + 1>>)
         IN  [inner |-> 1 + l.inner + r.inner, leaf |-> l.leaf + r.leaf,
              entries |-> l.entries + r.entries]

\* The summed counters of a build next to what is reachable from the root
\* of its preliminary tree and to what compactification wrote.
Tally(w, builders, st) ==
  [inner |-> SumCtx(w, builders, "inner"), leaf |-> SumCtx(w, builders, "leaf"),
   index |-> SumCtx(w, builders, "index"),
   reach |-> Reachable(w, <<0, 0>>),
   nodesWritten |-> Cardinality({k \in 1 .. Len(st.m_nodes) :
                                   st.m_nodes[k] # UninitialisedNode}),
   indicesWritten |-> Cardinality({k \in 1 .. Len(st.m_indices) :
                                     st.m_indices[k] # Unwritten}),
   contexts |-> Cardinality({c \in 0 .. builders : Len(w.ctx[c].nodes) > 0})]

NoTally ==
  [inner |-> 0, leaf |-> 0, index |-> 0,
   reach |-> [inner |-> 0, leaf |-> 0, entries |-> 0],
   nodesWritten |-> 0, indicesWritten |-> 0, contexts |-> 0]

\* ------------------------------------------------------------ buildInternal
\* Parameters set by the GenericKDTree constructor.
DefaultParams ==
  [m_traversalCost |-> 15, m_queryCost |-> 20, m_emptySpaceBonus |-> 9,
   m_clip |-> TRUE, m_retract |-> TRUE, m_parallelBuild |-> TRUE,
   m_maxDepth |-> 0, m_stopPrims |-> 6, m_maxBadRefines |-> 3,
   m_exactPrimThreshold |-> 65536, m_minMaxBins |-> 128]

\* 1000 * log2(n) for the primitive counts that occur, and the depth
\* cutoff (int) (8 + 1.3 * log(primCount) / log(2)).
Log2Milli ==
  <<0, 1000, 1585, 2000, 2322, 2585, 2807, 3000, 3170, 3322, 3459, 3585,
    3700, 3807, 3907, 4000, 4087>>
DepthHeuristic(primCount) ==
  (8000 + (13 * Log2Milli[Min2(primCount, Len(Log2Milli))]) \div 10) \div 1000

\* Sanity checks that let every setting pass.
NoParameterError(P) == "none"

\* First failing sanity check, or "none".
ParameterError(P) ==
  IF P.m_traversalCost <= 0 THEN "TraversalCost"
  ELSE IF P.m_queryCost <= 0 THEN "QueryCost"
  ELSE IF P.m_emptySpaceBonus <= 0 \/ P.m_emptySpaceBonus > 10 THEN "EmptySpaceBonus"
  ELSE IF P.m_minMaxBins <= 1 THEN "MinMaxBins"
  ELSE "none"

\* m_parallelBuild and m_maxDepth as buildInternal rewrites them before
\* the construction starts.
EffectiveParams(P, primCount, procCount) ==
  [P EXCEPT
     !.m_parallelBuild = @ /\ ~(primCount <= P.m_exactPrimThreshold)
                           /\ procCount # 1,
     !.m_maxDepth = Min2(IF @ = 0 THEN DepthHeuristic(primCount) ELSE @,
                         NORI_KD_MAXDEPTH)]

SceneBBox(meshes, sizeMap, primCount) ==
  FoldRange(LAMBDA bbox, i :
              BBoxExpandBy(bbox, KDTree_getBoundingBox(meshes, sizeMap, i)),
            BBoxReset, 0, primCount - 1)

\* bbox.min -= (bbox.max - bbox.min) * eps + eps, then the same for
\* bbox.max with the extents of the box whose minimum was just moved.
EnlargeBBox(bbox) ==
  LET grow(e) == TruncDiv(e * NORI_KD_BBOX_EPSILON, UnitsPerOne) + NORI_KD_BBOX_EPSILON
      lo == [i \in 1 .. 3 |-> bbox.min[i] - grow(bbox.max[i] - bbox.min[i])]
      hi == [i \in 1 .. 3 |-> bbox.max[i] + grow(bbox.max[i] - lo[i])]
  IN  BBox(lo, hi)

\* The preliminary tree: the build state after buildTreeMinMax returned
\* at the root and all builders have finished.
PrelimBuild(P, meshes, sizeMap, primCount, bbox, assign, builders) ==
  LET env == P @@ [meshes |-> meshes, sizeMap |-> sizeMap, assign |-> assign]
      w0  == [NewWorld(builders) EXCEPT !.ctx[0].nodes = <<UninitialisedNode>>]
  IN  buildTreeMinMax(env, w0, 0, 1, <<0, 0>>, bbox, bbox,
                      [i \in 1 .. primCount |-> i - 1], primCount, 0).w

\* The object after buildInternal() on a tree that is not built yet and
\* holds at least one primitive.  T is the object before the call.  The
\* parts are given last part first.
BuildResult(T, P, bbox, builders, w, nodeCount, indexCount, st) ==
  CASE st = st ->
    [params |-> P,
     m_nodes |-> st.m_nodes, m_indices |-> st.m_indices,
     m_nodeCount |-> nodeCount, m_indexCount |-> indexCount,
     m_bbox |-> IF st.failed THEN bbox ELSE EnlargeBBox(bbox),
     m_tightBBox |-> IF st.failed THEN T.m_tightBBox ELSE bbox,
     m_indirections |-> IF st.failed THEN w.m_indirections ELSE << >>,
     error |-> IF st.failed THEN "RelativePointer" ELSE "none",
     threadsStarted |-> builders,
     jobs |-> w.jobs,
     retractedJobs |-> w.retractedJobs,
     indirections |-> w.m_indirections,
     splits |-> w.splits,
     refines |-> w.refines,
     lists |-> w.lists,
     sweeps |-> w.sweeps,
     entries |-> w.entries,
     tally |-> Tally(w, builders, st),
     nodePtr |-> st.nodePtr, indexPtr |-> st.indexPtr,
     retractedSplits |-> SumCtx(w, builders, "retracted"),
     pruned |-> SumCtx(w, builders, "pruned")]

BuildCompact(T, P, bbox, builders, w, nodeCount, indexCount) ==
  BuildResult(T, P, bbox, builders, w, nodeCount, indexCount,
              Compactify(w, <<0, 0>>, nodeCount, indexCount))

BuildCounts(T, P, bbox, builders, w) ==
  CASE w = w ->
    BuildCompact(T, P, bbox, builders, w,
                 SumCtx(w, builders, "inner") + SumCtx(w, builders, "leaf"),
                 SumCtx(w, builders, "index"))

BuildPrelim(T, meshes, sizeMap, primCount, assign, P, builders, bbox) ==
  CASE bbox = bbox ->
    BuildCounts(T, P, bbox, builders,
                PrelimBuild(P, meshes, sizeMap, primCount, bbox, assign, builders))

BuildWithParams(T, meshes, sizeMap, primCount, procCount, assign, P) ==
  CASE P = P ->
    BuildPrelim(T, meshes, sizeMap, primCount, assign, P,
                IF P.m_parallelBuild THEN procCount ELSE 0,
                SceneBBox(meshes, sizeMap, primCount))

BuildNonEmpty(T, meshes, sizeMap, primCount, procCount, assign) ==
  BuildWithParams(T, meshes, sizeMap, primCount, procCount, assign,
                  EffectiveParams(T.params, primCount, procCount))

\* ================================================================== state
VARIABLES
  m_meshes,        \* KDTree::m_meshes, as mesh names
  m_sizeMap,       \* KDTree::m_sizeMap
  m_primitiveCount,
  params,          \* the construction parameters of GenericKDTree
  m_nodes,         \* NULL, or the final node array (without the node in front)
  m_indices,       \* NULL, or the final index array
  m_bbox, m_tightBBox,
  m_nodeCount, m_indexCount,
  m_indirections,
  lastCall,        \* what the most recent call did (observation only)
  pc,              \* position of the ray query in progress
  ray,             \* its ray and shadowRay flag
  stack, enPt, exPt, currNode,
  mint, maxt,
  its_t, foundIntersection,
  garbage,         \* the word behind a mesh's index buffer, as this query reads it
  result           \* value returned by the last finished query

treeVars == <<m_nodes, m_indices, m_bbox, m_tightBBox, m_nodeCount, m_indexCount,
              m_indirections>>
sceneVars == <<m_meshes, m_sizeMap, m_primitiveCount>>
queryVars == <<pc, ray, stack, enPt, exPt, currNode, mint, maxt, its_t,
               foundIntersection, garbage, result>>

\* The threads of a parallel build (GenericKDTree::buildInternal,
\* TreeBuilder::run, transitionToNLogN), one step per statement group.
VARIABLES
  m_builders,      \* ids of the TreeBuilder threads that were started
  m_interface,     \* BuildInterface: mutex, cond, condJobTaken, threadMap,
                   \* done and the job description
  tpc,             \* position of the dispatcher and of every builder
  jobs,            \* number of subtrees handed off so far
  jobState,        \* per job: none, published, taken, built or failed
  takers,          \* per job: the builders that took it, in order
  taken,           \* per builder: the job fields it read (its locals)
  events,          \* content of the dispatcher's event buffer (job, or released)
  copied,          \* per job: what memcpy copied into the builder's arena
  contexts,        \* per builder: the subtrees written into its BuildContext
  indirections,    \* threads that appended to m_indirections, in order
  process          \* running, or terminated by an unhandled exception

threadVars == <<m_builders, m_interface, tpc, jobs, jobState, takers, taken,
                events, copied, contexts, indirections, process>>

\* An OrderedChunkAllocator and the regions its caller holds.
VARIABLES
  m_chunks,        \* OrderedChunkAllocator::m_chunks: start, cur, size
  regions,         \* regions handed out and not yet released, oldest first
  overlapped       \* whether allocate returned a region overlapping a live one

arenaVars == <<m_chunks, regions, overlapped>>

treeSpecVars == <<sceneVars, params, treeVars, lastCall, queryVars>>
vars == <<treeSpecVars, threadVars, arenaVars>>

isBuilt == m_nodes # NULL
getPrimitiveCount == m_primitiveCount

\* Parameter settings the callers use: the defaults, the settings that
\* make small scenes exercise every stage of the builder, and one setting
\* for each sanity check that rejects it.
Tuned == [DefaultParams EXCEPT !.m_stopPrims = 0]
Binned == [Tuned EXCEPT !.m_exactPrimThreshold = 1]
Binned4 == [Binned EXCEPT !.m_minMaxBins = 4]
ParamSpace ==
  { DefaultParams, Tuned,
    [Tuned EXCEPT !.m_retract = FALSE],
    [Tuned EXCEPT !.m_clip = FALSE],
    [Tuned EXCEPT !.m_maxBadRefines = 0],
    [Tuned EXCEPT !.m_maxDepth = 2],
    [Tuned EXCEPT !.m_traversalCost = 20],
    Binned, Binned4,
    [Binned4 EXCEPT !.m_parallelBuild = FALSE],
    [Binned4 EXCEPT !.m_retract = FALSE],
    [Binned4 EXCEPT !.m_maxBadRefines = 0],
    [DefaultParams EXCEPT !.m_traversalCost = 0],
    [DefaultParams EXCEPT !.m_queryCost = 0],
    [DefaultParams EXCEPT !.m_emptySpaceBonus = 0],
    [DefaultParams EXCEPT !.m_emptySpaceBonus = 11],
    [DefaultParams EXCEPT !.m_minMaxBins = 1] }

\* An entry of the traversal stack that was never written.
NullNode == -1
GarbageEntry == [node |-> NullNode, t |-> 0, prev |-> 0, p |-> <<0, 0, 0>>]
NoRay == [o |-> <<0, 0, 0>>, d |-> <<0, 0, 0>>, mint |-> 0, maxt |-> 0,
          shadowRay |-> FALSE]
IdleQuery ==
  /\ pc = "idle"
  /\ ray = NoRay
  /\ stack = [i \in 0 .. NORI_KD_MAXDEPTH - 1 |-> GarbageEntry]
  /\ enPt = 0 /\ exPt = 0 /\ currNode = NullNode
  /\ mint = 0 /\ maxt = 0
  /\ its_t = 0 /\ foundIntersection = FALSE
  /\ garbage = 0

NoCall == [op |-> "none", error |-> "none", threadsStarted |-> 0, jobs |-> 0,
           retractedSplits |-> 0, pruned |-> 0, nodePtr |-> 0, indexPtr |-> 0,
           nodesAllocated |-> 0, retractedJobs |-> 0,
           indirections |-> << >>, splits |-> {},
           refines |-> {}, lists |-> {}, sweeps |-> {}, entries |-> {},
           tally |-> NoTally]

\* The dispatcher is the thread that called build(); builders carry m_id.
Dispatcher == -1
NoThread == -2
BuilderIds == 0 .. MaxCores - 1
Threads == BuilderIds \cup {Dispatcher}
JobIds == 1 .. MaxJobs
\* The event buffer after alloc.release(): its content is no job's events.
Released == 0
NotCopied == -1

\* BuildInterface(): node = NULL, done = false; nobody holds the mutex or
\* waits on a condition.
BuildInterface ==
  [mutex |-> NoThread, cond |-> {}, condJobTaken |-> {},
   threadMap |-> [j \in JobIds |-> NoThread],
   done |-> FALSE, node |-> 0, eventStart |-> Released, primCount |-> 0]

NoJob == [node |-> 0, eventStart |-> Released, primCount |-> 0]

ThreadInit ==
  /\ m_builders = {}
  /\ m_interface = BuildInterface
  /\ tpc = [t \in Threads |-> IF t = Dispatcher THEN "idle" ELSE "unstarted"]
  /\ jobs = 0
  /\ jobState = [j \in JobIds |-> "none"]
  /\ takers = [j \in JobIds |-> << >>]
  /\ taken = [w \in BuilderIds |-> NoJob]
  /\ events = Released
  /\ copied = [j \in JobIds |-> NotCopied]
  /\ contexts = [w \in BuilderIds |-> {}]
  /\ indirections = << >>
  /\ process = "running"

\* OrderedChunkAllocator(): no chunks.
ArenaInit ==
  /\ m_chunks = << >>
  /\ regions = << >>
  /\ overlapped = FALSE

TreeInit ==
  /\ m_meshes = << >>
  /\ m_sizeMap = <<0>>
  /\ m_primitiveCount = 0
  /\ params = DefaultParams
  /\ m_nodes = NULL
  /\ m_indices = NULL
  /\ m_bbox = BBoxReset
  /\ m_tightBBox = BBoxReset
  /\ m_nodeCount = 0
  /\ m_indexCount = 0
  /\ m_indirections = << >>
  /\ lastCall = NoCall
  /\ IdleQuery
  /\ result = FALSE

Init == TreeInit /\ ThreadInit /\ ArenaInit

\* ------------------------------------------------------------------ addMesh
addMesh(name) ==
  /\ pc = "idle"
  /\ ~isBuilt
  /\ Append(m_meshes, name) \in Scenes
  /\ m_primitiveCount' = m_primitiveCount + getTriangleCount(MeshCatalogue[name])
  /\ m_meshes' = Append(m_meshes, name)
  /\ m_sizeMap' = Append(m_sizeMap, m_sizeMap[Len(m_sizeMap)]
                                    + getTriangleCount(MeshCatalogue[name]))
  /\ lastCall' = [NoCall EXCEPT !.op = "addMesh"]
  /\ UNCHANGED <<params, treeVars, queryVars>>

\* ------------------------------------------------------------------ setters
SetParam(new) ==
  /\ pc = "idle"
  /\ ~isBuilt
  /\ new # params
  /\ new \in ParamSpace
  /\ params' = new
  /\ lastCall' = [NoCall EXCEPT !.op = "set"]
  /\ UNCHANGED <<sceneVars, treeVars, queryVars>>

setTraversalCost == \E v \in {0, 15, 20} : SetParam([params EXCEPT !.m_traversalCost = v])
setQueryCost == \E v \in {0, 20} : SetParam([params EXCEPT !.m_queryCost = v])
setEmptySpaceBonus ==
  \E v \in {0, 9, 11} : SetParam([params EXCEPT !.m_emptySpaceBonus = v])
setMaxDepth == \E v \in {0, 2} : SetParam([params EXCEPT !.m_maxDepth = v])
setMinMaxBins == \E v \in {1, 4, 128} : SetParam([params EXCEPT !.m_minMaxBins = v])
setClip == \E v \in BOOLEAN : SetParam([params EXCEPT !.m_clip = v])
setRetract == \E v \in BOOLEAN : SetParam([params EXCEPT !.m_retract = v])
setMaxBadRefines == \E v \in {0, 3} : SetParam([params EXCEPT !.m_maxBadRefines = v])
setStopPrims == \E v \in {0, 6} : SetParam([params EXCEPT !.m_stopPrims = v])
setParallelBuild == \E v \in BOOLEAN : SetParam([params EXCEPT !.m_parallelBuild = v])
setExactPrimitiveThreshold ==
  \E v \in {1, 65536} : SetParam([params EXCEPT !.m_exactPrimThreshold = v])

\* -------------------------------------------------------------------- build
\* Values getCoreCount() can report.  The count only matters when the
\* build runs in parallel, that is when m_parallelBuild is set and the
\* primitive count exceeds m_exactPrimThreshold.
CoreCounts ==
  IF params.m_parallelBuild /\ getPrimitiveCount > params.m_exactPrimThreshold
    THEN 1 .. MaxCores ELSE {1}

\* Which builder takes the j-th job that is handed off (cyclically in j).
Assignments(procCount) ==
  IF procCount = 1 THEN {[j \in 1 .. MaxJobs |-> 0]}
  ELSE [1 .. MaxJobs -> 0 .. procCount - 1]

ThisTree ==
  [params |-> params, m_nodes |-> m_nodes, m_indices |-> m_indices,
   m_bbox |-> m_bbox, m_tightBBox |-> m_tightBBox, m_nodeCount |-> m_nodeCount,
   m_indexCount |-> m_indexCount, m_indirections |-> m_indirections]

\* A rejection that gives the node array up.
BuildRejectedAndFreed(error) ==
  /\ lastCall' = [NoCall EXCEPT !.op = "build", !.error = error]
  /\ m_nodes' = NULL
  /\ UNCHANGED <<params, m_indices, m_bbox, m_tightBBox, m_nodeCount,
                 m_indexCount, m_indirections>>

BuildRejected(error) ==
  /\ lastCall' = [NoCall EXCEPT !.op = "build", !.error = error]
  /\ UNCHANGED <<params, treeVars>>

BuildEmpty ==
  /\ m_nodes' = <<initLeafNode(0, 0)>>
  /\ lastCall' = [NoCall EXCEPT !.op = "build", !.nodesAllocated = 2]
  /\ UNCHANGED <<params, m_indices, m_bbox, m_tightBBox, m_nodeCount,
                 m_indexCount, m_indirections>>

Install(r) ==
  /\ params' = r.params
  /\ m_nodes' = r.m_nodes
  /\ m_indices' = r.m_indices
  /\ m_bbox' = r.m_bbox
  /\ m_tightBBox' = r.m_tightBBox
  /\ m_nodeCount' = r.m_nodeCount
  /\ m_indexCount' = r.m_indexCount
  /\ m_indirections' = r.m_indirections
  /\ lastCall' = [op |-> "build", error |-> r.error,
                  threadsStarted |-> r.threadsStarted, jobs |-> r.jobs,
                  retractedSplits |-> r.retractedSplits,
                  pruned |-> r.pruned, nodePtr |-> r.nodePtr,
                  indexPtr |-> r.indexPtr,
                  nodesAllocated |-> r.m_nodeCount + 1,
                  retractedJobs |-> r.retractedJobs,
                  indirections |-> r.indirections,
                  splits |-> r.splits,
                  refines |-> r.refines,
                  lists |-> r.lists,
                  sweeps |-> r.sweeps,
                  entries |-> r.entries,
                  tally |-> r.tally]

BuildScene ==
  \E procCount \in CoreCounts :
    \E assign \in Assignments(procCount) :
      Install(BuildNonEmpty(ThisTree, m_meshes, m_sizeMap, getPrimitiveCount,
                            procCount, assign))

\* KDTree::build(), that is buildInternal().
build ==
  /\ pc = "idle"
  /\ IF isBuilt THEN BuildRejected("AlreadyBuilt")
     ELSE IF ParameterError(params) # "none"
       THEN BuildRejected(ParameterError(params))
     ELSE IF getPrimitiveCount = 0 THEN BuildEmpty
     ELSE BuildScene
  /\ UNCHANGED <<sceneVars, queryVars>>

\* ------------------------------------------------------------ rayIntersect
\* TBoundingBox::rayIntersect: the slab test.  An empty box is missed.
RECURSIVE BBoxSlabs(_, _, _, _, _)
BBoxSlabs(box, r, i, nearT, farT) ==
  IF i > 3 THEN [hit |-> TRUE, nearT |-> nearT, farT |-> farT]
  ELSE IF r.d[i] = 0
    THEN IF r.o[i] < box.min[i] \/ r.o[i] > box.max[i]
           THEN [hit |-> FALSE, nearT |-> nearT, farT |-> farT]
           ELSE BBoxSlabs(box, r, i + 1, nearT, farT)
    ELSE LET a  == TruncDiv(box.min[i] - r.o[i], r.d[i])
             b  == TruncDiv(box.max[i] - r.o[i], r.d[i])
             t1 == Min2(a, b)
             t2 == Max2(a, b)
             n  == Max2(t1, nearT)
             f  == Min2(t2, farT)
         IN  IF ~(n <= f) THEN [hit |-> FALSE, nearT |-> n, farT |-> f]
             ELSE BBoxSlabs(box, r, i + 1, n, f)

BBoxRayIntersect(box, r) ==
  IF ~BBoxIsValid(box) THEN [hit |-> FALSE, nearT |-> 0, farT |-> 0]
  ELSE BBoxSlabs(box, r, 1, -Infinity, Infinity)

\* Ray::operator(): o + t * d.
RayAt(r, t) == VAdd(r.o, VScale(r.d, t))

MaxAbsCoeff(v) == Max2(Abs(v[1]), Max2(Abs(v[2]), Abs(v[3])))

\* mint after the adaptive epsilon.
AdaptiveMint(r) ==
  IF r.mint = Epsilon
    THEN Max2(r.mint, TruncDiv(r.mint * MaxAbsCoeff(r.o), UnitsPerOne))
    ELSE r.mint

FreshStack == [i \in 0 .. NORI_KD_MAXDEPTH - 1 |-> GarbageEntry]

\* The query returns 'res'; its.t is 't'.
Return(res, t) ==
  /\ pc' = "returned"
  /\ result' = res
  /\ its_t' = t
  /\ foundIntersection' = res
  /\ stack' = FreshStack
  /\ enPt' = 0 /\ exPt' = 0 /\ currNode' = NullNode
  /\ mint' = 0 /\ maxt' = 0

\* The process is killed by a memory fault.
Crash ==
  /\ pc' = "crashed"
  /\ UNCHANGED <<result, its_t, foundIntersection, stack, enPt, exPt, currNode,
                 mint, maxt>>

\* The query has read memory that was never written or lies outside a
\* buffer, or has written outside the stack array.
GoUndefined ==
  /\ pc' = "undefined"
  /\ UNCHANGED <<result, its_t, foundIntersection, stack, enPt, currNode,
                 mint, maxt>>

\* What can follow: a fault, or the query runs on with clobbered locals
\* and returns anything.
Undefined ==
  /\ pc = "undefined"
  /\ \/ Crash
     \/ Return(TRUE, 0)
     \/ Return(FALSE, Infinity)
  /\ lastCall' = [NoCall EXCEPT !.op = "rayIntersect", !.error = "undefined"]
  /\ UNCHANGED <<sceneVars, params, treeVars, ray, garbage>>

\* The caller has taken the result; the locals of the query are gone.
EndQuery ==
  /\ pc = "returned"
  /\ pc' = "idle"
  /\ ray' = NoRay
  /\ garbage' = 0
  /\ its_t' = 0
  /\ foundIntersection' = FALSE
  /\ UNCHANGED <<sceneVars, params, treeVars, lastCall, stack, enPt, exPt,
                 currNode, mint, maxt, result>>

\* The rays the renderer casts at the scenes: straight down onto the
\* lattice, and along the ground plane and across it.
DownRays ==
  { [o |-> <<x, y, 20>>, d |-> <<0, 0, -1>>, mint |-> Epsilon, maxt |-> Infinity]
      : x \in {10, 20, 30}, y \in {10, 20} }
SkewRays ==
  { [o |-> <<-20, 10, 0>>, d |-> <<1, 0, 0>>, mint |-> Epsilon, maxt |-> Infinity],
    [o |-> <<-20, -10, 0>>, d |-> <<1, 1, 0>>, mint |-> Epsilon, maxt |-> Infinity],
    [o |-> <<120, 10, 0>>, d |-> <<-1, 0, 0>>, mint |-> 0, maxt |-> Infinity],
    [o |-> <<20, 10, 0>>, d |-> <<1, 0, 0>>, mint |-> 0, maxt |-> Infinity],
    [o |-> <<-10, -20, 30>>, d |-> <<1, 1, -1>>, mint |-> Epsilon, maxt |-> Infinity],
    [o |-> <<10, 10, 20>>, d |-> <<0, 0, -1>>, mint |-> Epsilon, maxt |-> 10],
    [o |-> <<10, 10, -20>>, d |-> <<0, 0, -1>>, mint |-> Epsilon, maxt |-> Infinity] }
Rays == DownRays \cup SkewRays
\* Those also cast as shadow rays.
ShadowRays ==
  { r \in Rays : r.o \in { <<10, 10, 20>>, <<-20, 10, 0>> } }
GarbageValues == {0, 2, 9}

\* Entry of rayIntersect up to the traversal loop.
StartQuery ==
  /\ pc = "idle"
  /\ isBuilt
  /\ \E r \in Rays, shadowRay \in BOOLEAN, g \in GarbageValues :
       LET m0 == AdaptiveMint(r)
           bb == BBoxRayIntersect(m_bbox, r)
           lo == Max2(m0, bb.nearT)
           hi == Min2(r.maxt, bb.farT)
       IN  /\ shadowRay => r \in ShadowRays
           /\ ray' = r @@ [shadowRay |-> shadowRay]
           /\ garbage' = g
           /\ IF ~bb.hit \/ hi < lo THEN Return(FALSE, Infinity)
              ELSE /\ pc' = "traverse"
                   /\ mint' = lo /\ maxt' = hi
                   /\ enPt' = 0 /\ exPt' = 1
                   /\ stack' = [FreshStack EXCEPT
                                  ![0].t = lo, ![0].p = RayAt(r, lo),
                                  ![1].t = hi, ![1].p = RayAt(r, hi),
                                  ![1].node = NullNode]
                   /\ currNode' = 0
                   /\ its_t' = Infinity
                   /\ foundIntersection' = FALSE
                   /\ UNCHANGED result
  /\ lastCall' = [NoCall EXCEPT !.op = "rayIntersect"]
  /\ UNCHANGED <<sceneVars, params, treeVars>>

\* m_nodes[n], or the uninitialised node when n lies outside the array.
FinalNode(n) ==
  IF n >= 0 /\ n < Len(m_nodes) THEN m_nodes[n + 1] ELSE UninitialisedNode

\* The slot after the exit point, whatever it holds.
NextSlot(ex, en) == ex + 1

\* tmp = exPt++; if (exPt == enPt) ++exPt;
NewExit(ex, en) == IF ex + 1 = en THEN ex + 2 ELSE ex + 1

\* The test of case Z1 as Havran's thesis prints it.
CaseZ1Thesis(en, ex, splitVal) == ex = splitVal

\* Case Z1: stack[enPt].p[axis] == splitVal.
CaseZ1(en, ex, splitVal) == en = splitVal

\* One iteration of the inner loop: descend from an inner node.
TraverseInner ==
  /\ pc = "traverse"
  /\ LET node == FinalNode(currNode)
         splitVal == getSplit(node)
         axis == getAxis(node)
         left == currNode + getLeftOffset(node)
         en == At(stack[enPt].p, axis)
         ex == At(stack[exPt].p, axis)
         distToSplit == TruncDiv(splitVal - At(ray.o, axis), At(ray.d, axis))
         tmp == exPt
         newEx == NewExit(exPt, enPt)
         Go(n) == /\ currNode' = n
                  /\ UNCHANGED <<stack, exPt, enPt, pc, mint, maxt, its_t,
                                 foundIntersection, result>>
         Push(near, farChild) ==
           IF newEx >= NORI_KD_MAXDEPTH
             THEN /\ exPt' = newEx
                  /\ GoUndefined
             ELSE /\ exPt' = newEx
                  /\ currNode' = near
                  /\ stack' = [stack EXCEPT ![newEx] =
                       [prev |-> tmp, t |-> distToSplit, node |-> farChild,
                        p |-> SetAt(RayAt(ray, distToSplit), axis, splitVal)]]
                  /\ UNCHANGED <<enPt, pc, mint, maxt, its_t, foundIntersection,
                                 result>>
     IN  /\ ~isLeaf(node)
         /\ IF node = UninitialisedNode THEN GoUndefined /\ UNCHANGED exPt
            ELSE IF en <= splitVal
              THEN IF ex <= splitVal THEN Go(left)
                   ELSE IF CaseZ1(en, ex, splitVal) THEN Go(left + 1)
                   ELSE Push(left, left + 1)
              ELSE IF splitVal < ex THEN Go(left + 1)
                   ELSE Push(left + 1, left)
  /\ UNCHANGED <<sceneVars, params, treeVars, lastCall, ray, garbage>>

\* The loop over the primitives of a leaf, from 'entry' on.
RECURSIVE LeafLoop(_, _, _, _)
LeafLoop(entry, last, r, acc) ==
  IF entry = last THEN acc
  ELSE IF entry >= Len(m_indices) \/ m_indices[entry + 1] = Unwritten
    THEN [acc EXCEPT !.undefined = TRUE]
  ELSE
    LET f   == findMesh(m_sizeMap, m_indices[entry + 1])
        hit == Mesh_rayIntersect(MeshCatalogue[m_meshes[f.mesh + 1]], f.idx, r,
                                 garbage)
    IN  IF hit.fault THEN [acc EXCEPT !.undefined = TRUE]
        ELSE IF hit.success /\ hit.t >= mint /\ hit.t <= acc.maxt
          THEN IF r.shadowRay THEN [acc EXCEPT !.shadowHit = TRUE]
               ELSE LeafLoop(entry + 1, last, r,
                             [acc EXCEPT !.maxt = hit.t, !.its_t = hit.t,
                                         !.found = TRUE])
          ELSE LeafLoop(entry + 1, last, r, acc)

\* A leaf has been reached: test its primitives, then stop or pop the
\* stack and go on with the far child.
TraverseLeaf ==
  /\ pc = "traverse"
  /\ LET node == FinalNode(currNode)
         acc  == LeafLoop(getPrimStart(node), getPrimEnd(node), ray,
                          [maxt |-> maxt, its_t |-> its_t,
                           found |-> foundIntersection,
                           undefined |-> FALSE, shadowHit |-> FALSE])
     IN  /\ isLeaf(node)
         /\ IF acc.undefined THEN GoUndefined /\ UNCHANGED exPt
            ELSE IF acc.shadowHit THEN Return(TRUE, acc.its_t)
            ELSE IF stack[exPt].t > acc.maxt \/ stack[exPt].node = NullNode
              THEN Return(acc.found, acc.its_t)
            ELSE /\ enPt' = exPt
                 /\ currNode' = stack[exPt].node
                 /\ exPt' = stack[exPt].prev
                 /\ maxt' = acc.maxt
                 /\ its_t' = acc.its_t
                 /\ foundIntersection' = acc.found
                 /\ UNCHANGED <<pc, stack, mint, result>>
  /\ UNCHANGED <<sceneVars, params, treeVars, lastCall, ray, garbage>>

\* ------------------------------------------------------------ specification
\* The build threads and the allocator on its own are stepped by the
\* specifications further down.
otherVars == <<threadVars, arenaVars>>

Next ==
  \/ (\E name \in MeshNames : addMesh(name)) /\ UNCHANGED otherVars
  \/ setTraversalCost /\ UNCHANGED otherVars
  \/ setQueryCost /\ UNCHANGED otherVars
  \/ setEmptySpaceBonus /\ UNCHANGED otherVars
  \/ setMaxDepth /\ UNCHANGED otherVars
  \/ setMinMaxBins /\ UNCHANGED otherVars
  \/ setClip /\ UNCHANGED otherVars
  \/ setRetract /\ UNCHANGED otherVars
  \/ setMaxBadRefines /\ UNCHANGED otherVars
  \/ setStopPrims /\ UNCHANGED otherVars
  \/ setParallelBuild /\ UNCHANGED otherVars
  \/ setExactPrimitiveThreshold /\ UNCHANGED otherVars
  \/ build /\ UNCHANGED otherVars
  \/ StartQuery /\ UNCHANGED otherVars
  \/ TraverseInner /\ UNCHANGED otherVars
  \/ TraverseLeaf /\ UNCHANGED otherVars
  \/ Undefined /\ UNCHANGED otherVars
  \/ EndQuery /\ UNCHANGED otherVars

Spec == Init /\ [][Next]_vars

\* ========================================================== build threads
\* QWaitCondition::wakeOne and wakeAll on the set of waiting threads.
WakeOne(waiting) ==
  IF waiting = {} THEN {{}} ELSE {waiting \ {t} : t \in waiting}

\* No waiting thread is woken.
WakeNone(waiting) == waiting

WakeAll(waiting) == {}

nonThreadVars == <<treeSpecVars, arenaVars>>
AtPlace(t, place) == process = "running" /\ tpc[t] = place
Goto(t, place) == tpc' = [tpc EXCEPT ![t] = place]
MutexFree == m_interface.mutex = NoThread

\* The slot is never seen occupied.
NeverPending == FALSE

\* while (m_interface.node): the job in the slot has not been taken.
JobPending == m_interface.node # 0

\* The slot keeps the job after a builder read it.
SlotKept == m_interface.node

\* m_interface.node = NULL
SlotCleared == 0

\* The dispatcher goes on without waiting for the builders.
JoinSkipped == TRUE

\* m_builders[i]->wait() for every builder.
AllBuildersJoined == \A w \in m_builders : tpc[w] = "exited"

\* buildInternal: m_builders.resize(procCount), new TreeBuilder, start().
StartBuilders ==
  /\ AtPlace(Dispatcher, "idle")
  /\ \E procCount \in 2 .. MaxCores :
       /\ m_builders' = 0 .. procCount - 1
       /\ tpc' = [t \in Threads |->
                    IF t = Dispatcher THEN "root"
                    ELSE IF t < procCount THEN "lock" ELSE tpc[t]]
  /\ UNCHANGED <<m_interface, jobs, jobState, takers, taken, events, copied,
                 contexts, indirections, process>>
  /\ UNCHANGED nonThreadVars

\* buildTreeMinMax on the dispatcher stores an inner node whose children
\* are out of reach of the relative offset.
RootIndirection ==
  /\ AtPlace(Dispatcher, "root")
  /\ \A k \in 1 .. Len(indirections) : indirections[k] # Dispatcher
  /\ indirections' = Append(indirections, Dispatcher)
  /\ UNCHANGED <<m_builders, m_interface, tpc, jobs, jobState, takers, taken,
                 events, copied, contexts, process>>
  /\ UNCHANGED nonThreadVars

\* transitionToNLogN: createEventList for the subtree to hand off.
CreateEventList ==
  /\ AtPlace(Dispatcher, "root")
  /\ jobs < MaxJobs
  /\ jobs' = jobs + 1
  /\ events' = jobs + 1
  /\ Goto(Dispatcher, "publish")
  /\ UNCHANGED <<m_builders, m_interface, jobState, takers, taken, copied,
                 contexts, indirections, process>>
  /\ UNCHANGED nonThreadVars

\* m_interface.mutex.lock(), the job fields, cond.wakeOne().
Publish ==
  /\ AtPlace(Dispatcher, "publish")
  /\ MutexFree
  /\ \E woken \in WakeOne(m_interface.cond) :
       m_interface' = [m_interface EXCEPT !.mutex = Dispatcher,
                                          !.node = jobs,
                                          !.eventStart = jobs,
                                          !.primCount = jobs,
                                          !.cond = woken]
  /\ jobState' = [jobState EXCEPT ![jobs] = "published"]
  /\ Goto(Dispatcher, "await")
  /\ UNCHANGED <<m_builders, jobs, takers, taken, events, copied, contexts,
                 indirections, process>>
  /\ UNCHANGED nonThreadVars

\* while (m_interface.node) condJobTaken.wait(&mutex); then mutex.unlock().
AwaitJobTaken ==
  /\ AtPlace(Dispatcher, "await")
  /\ m_interface.mutex = Dispatcher
  /\ IF JobPending
       THEN /\ m_interface' = [m_interface EXCEPT !.mutex = NoThread,
                                                  !.condJobTaken = {Dispatcher}]
            /\ Goto(Dispatcher, "sleeping")
       ELSE /\ m_interface' = [m_interface EXCEPT !.mutex = NoThread]
            /\ Goto(Dispatcher, "release")
  /\ UNCHANGED <<m_builders, jobs, jobState, takers, taken, events, copied,
                 contexts, indirections, process>>
  /\ UNCHANGED nonThreadVars

\* The return from condJobTaken.wait: the mutex is taken again.
DispatcherWakes ==
  /\ AtPlace(Dispatcher, "sleeping")
  /\ Dispatcher \notin m_interface.condJobTaken
  /\ MutexFree
  /\ m_interface' = [m_interface EXCEPT !.mutex = Dispatcher]
  /\ Goto(Dispatcher, "await")
  /\ UNCHANGED <<m_builders, jobs, jobState, takers, taken, events, copied,
                 contexts, indirections, process>>
  /\ UNCHANGED nonThreadVars

\* alloc.release(events), and back into the recursion of buildTreeMinMax.
ReleaseEvents ==
  /\ AtPlace(Dispatcher, "release")
  /\ events' = Released
  /\ Goto(Dispatcher, "root")
  /\ UNCHANGED <<m_builders, m_interface, jobs, jobState, takers, taken,
                 copied, contexts, indirections, process>>
  /\ UNCHANGED nonThreadVars

\* The root call of buildTreeMinMax returns; done = true; cond.wakeAll().
SetDone ==
  /\ AtPlace(Dispatcher, "root")
  /\ MutexFree
  /\ m_interface' = [m_interface EXCEPT !.done = TRUE,
                                        !.cond = WakeAll(@)]
  /\ Goto(Dispatcher, "join")
  /\ UNCHANGED <<m_builders, jobs, jobState, takers, taken, events, copied,
                 contexts, indirections, process>>
  /\ UNCHANGED nonThreadVars

JoinBuilders ==
  /\ AtPlace(Dispatcher, "join")
  /\ AllBuildersJoined
  /\ Goto(Dispatcher, "collect")
  /\ UNCHANGED <<m_builders, m_interface, jobs, jobState, takers, taken,
                 events, copied, contexts, indirections, process>>
  /\ UNCHANGED nonThreadVars

\* cleanup() of the arenas and accumulateStatisticsFrom for every builder.
CollectContexts ==
  /\ AtPlace(Dispatcher, "collect")
  /\ Goto(Dispatcher, "compact")
  /\ UNCHANGED <<m_builders, m_interface, jobs, jobState, takers, taken,
                 events, copied, contexts, indirections, process>>
  /\ UNCHANGED nonThreadVars

\* The walk that rewrites the nodes: it reads threadMap, the contexts and
\* m_indirections.
CompactTree ==
  /\ AtPlace(Dispatcher, "compact")
  /\ Goto(Dispatcher, "free")
  /\ UNCHANGED <<m_builders, m_interface, jobs, jobState, takers, taken,
                 events, copied, contexts, indirections, process>>
  /\ UNCHANGED nonThreadVars

\* nodes.clear(), indices.clear(), the swap of m_indirections, delete
\* m_builders[i].
FreeBuilders ==
  /\ AtPlace(Dispatcher, "free")
  /\ contexts' = [w \in BuilderIds |-> {}]
  /\ indirections' = << >>
  /\ m_builders' = {}
  /\ Goto(Dispatcher, "returned")
  /\ UNCHANGED <<m_interface, jobs, jobState, takers, taken, events, copied,
                 process>>
  /\ UNCHANGED nonThreadVars

\* TreeBuilder::run: m_interface.mutex.lock() at the top of the loop.
BuilderLocks(w) ==
  /\ AtPlace(w, "lock")
  /\ MutexFree
  /\ m_interface' = [m_interface EXCEPT !.mutex = w]
  /\ Goto(w, "check")
  /\ UNCHANGED <<m_builders, jobs, jobState, takers, taken, events, copied,
                 contexts, indirections, process>>
  /\ UNCHANGED nonThreadVars

\* while (!done && !node) cond.wait(&mutex); if (done) { unlock; break; }
BuilderChecks(w) ==
  /\ AtPlace(w, "check")
  /\ m_interface.mutex = w
  /\ IF ~m_interface.done /\ m_interface.node = 0
       THEN /\ m_interface' = [m_interface EXCEPT !.mutex = NoThread,
                                                  !.cond = @ \cup {w}]
            /\ Goto(w, "waiting")
       ELSE IF m_interface.done
         THEN /\ m_interface' = [m_interface EXCEPT !.mutex = NoThread]
              /\ Goto(w, "exited")
         ELSE /\ UNCHANGED m_interface
              /\ Goto(w, "copy")
  /\ UNCHANGED <<m_builders, jobs, jobState, takers, taken, events, copied,
                 contexts, indirections, process>>
  /\ UNCHANGED nonThreadVars

\* The return from cond.wait: the mutex is taken again.
BuilderWakes(w) ==
  /\ AtPlace(w, "waiting")
  /\ w \notin m_interface.cond
  /\ MutexFree
  /\ m_interface' = [m_interface EXCEPT !.mutex = w]
  /\ Goto(w, "check")
  /\ UNCHANGED <<m_builders, jobs, jobState, takers, taken, events, copied,
                 contexts, indirections, process>>
  /\ UNCHANGED nonThreadVars

\* The job fields are read into locals, the events are allocated in the
\* builder's leftAlloc and copied with memcpy.
BuilderCopies(w) ==
  /\ AtPlace(w, "copy")
  /\ taken' = [taken EXCEPT ![w] = [node |-> m_interface.node,
                                    eventStart |-> m_interface.eventStart,
                                    primCount |-> m_interface.primCount]]
  /\ IF m_interface.node \in JobIds
       THEN /\ copied' = [copied EXCEPT ![m_interface.node] = events]
            /\ takers' = [takers EXCEPT ![m_interface.node] = Append(@, w)]
       ELSE UNCHANGED <<copied, takers>>
  /\ Goto(w, "ack")
  /\ UNCHANGED <<m_builders, m_interface, jobs, jobState, events, contexts,
                 indirections, process>>
  /\ UNCHANGED nonThreadVars

\* threadMap[node] = m_id; node = NULL; condJobTaken.wakeOne(); unlock().
BuilderAcknowledges(w) ==
  /\ AtPlace(w, "ack")
  /\ \E woken \in WakeOne(m_interface.condJobTaken) :
       m_interface' =
         [m_interface EXCEPT
            !.threadMap = IF taken[w].node \in JobIds
                            THEN [@ EXCEPT ![taken[w].node] = w] ELSE @,
            !.node = SlotCleared,
            !.condJobTaken = woken,
            !.mutex = NoThread]
  /\ jobState' = IF taken[w].node \in JobIds
                   THEN [jobState EXCEPT ![taken[w].node] = "taken"]
                   ELSE jobState
  /\ Goto(w, "build")
  /\ UNCHANGED <<m_builders, jobs, takers, taken, events, copied, contexts,
                 indirections, process>>
  /\ UNCHANGED nonThreadVars

\* std::sort and buildTree into the builder's own context; an inner node
\* whose children are out of reach appends to m_indirections.
BuilderBuilds(w) ==
  /\ AtPlace(w, "build")
  /\ contexts' = [contexts EXCEPT ![w] = @ \cup {taken[w].node}]
  /\ jobState' = IF taken[w].node \in JobIds
                   THEN [jobState EXCEPT ![taken[w].node] = "built"]
                   ELSE jobState
  /\ \/ UNCHANGED indirections
     \/ /\ \A k \in 1 .. Len(indirections) : indirections[k] # w
        /\ indirections' = Append(indirections, w)
  /\ Goto(w, "release")
  /\ UNCHANGED <<m_builders, m_interface, jobs, takers, taken, events,
                 copied, process>>
  /\ UNCHANGED nonThreadVars

\* An allocation inside buildTree throws (new T[BlockSize] in
\* BlockedVector).  run() has no handler, so the exception leaves the
\* thread function and std::terminate ends the process.
BuilderThrows(w) ==
  /\ AtPlace(w, "build")
  /\ jobState' = IF taken[w].node \in JobIds
                   THEN [jobState EXCEPT ![taken[w].node] = "failed"]
                   ELSE jobState
  /\ Goto(w, "threw")
  /\ process' = "terminated"
  /\ UNCHANGED <<m_builders, m_interface, jobs, takers, taken, events,
                 copied, contexts, indirections>>
  /\ UNCHANGED nonThreadVars

\* leftAlloc.release(eventStart), and around the loop.
BuilderReleases(w) ==
  /\ AtPlace(w, "release")
  /\ taken' = [taken EXCEPT ![w] = NoJob]
  /\ Goto(w, "lock")
  /\ UNCHANGED <<m_builders, m_interface, jobs, jobState, takers, events,
                 copied, contexts, indirections, process>>
  /\ UNCHANGED nonThreadVars

DispatcherNext ==
  \/ StartBuilders
  \/ RootIndirection
  \/ CreateEventList
  \/ Publish
  \/ AwaitJobTaken
  \/ DispatcherWakes
  \/ ReleaseEvents
  \/ SetDone
  \/ JoinBuilders
  \/ CollectContexts
  \/ CompactTree
  \/ FreeBuilders

\* The steps of run() that the code takes when no allocation fails.
BuilderSteps(w) ==
  \/ BuilderLocks(w)
  \/ BuilderChecks(w)
  \/ BuilderWakes(w)
  \/ BuilderCopies(w)
  \/ BuilderAcknowledges(w)
  \/ BuilderBuilds(w)
  \/ BuilderReleases(w)

ThreadNext ==
  \/ StartBuilders
  \/ RootIndirection
  \/ CreateEventList
  \/ Publish
  \/ AwaitJobTaken
  \/ DispatcherWakes
  \/ ReleaseEvents
  \/ SetDone
  \/ JoinBuilders
  \/ CollectContexts
  \/ CompactTree
  \/ FreeBuilders
  \/ \E w \in BuilderIds : BuilderLocks(w)
  \/ \E w \in BuilderIds : BuilderChecks(w)
  \/ \E w \in BuilderIds : BuilderWakes(w)
  \/ \E w \in BuilderIds : BuilderCopies(w)
  \/ \E w \in BuilderIds : BuilderAcknowledges(w)
  \/ \E w \in BuilderIds : BuilderBuilds(w)
  \/ \E w \in BuilderIds : BuilderThrows(w)
  \/ \E w \in BuilderIds : BuilderReleases(w)

ThreadSpec == Init /\ [][ThreadNext]_vars

\* The scheduler runs every thread that can take a step.
ThreadFairness ==
  /\ WF_vars(DispatcherNext)
  /\ \A w \in BuilderIds : WF_vars(BuilderSteps(w))

\* The steps of a build in which no allocation fails: a failed allocation
\* is a fault of the environment and ends the process (BuilderThrows); it
\* is not a step the scheduler owes to a thread.
FaultFreeNext ==
  \/ StartBuilders
  \/ RootIndirection
  \/ CreateEventList
  \/ Publish
  \/ AwaitJobTaken
  \/ DispatcherWakes
  \/ ReleaseEvents
  \/ SetDone
  \/ JoinBuilders
  \/ CollectContexts
  \/ CompactTree
  \/ FreeBuilders
  \/ \E w \in BuilderIds : BuilderLocks(w)
  \/ \E w \in BuilderIds : BuilderChecks(w)
  \/ \E w \in BuilderIds : BuilderWakes(w)
  \/ \E w \in BuilderIds : BuilderCopies(w)
  \/ \E w \in BuilderIds : BuilderAcknowledges(w)
  \/ \E w \in BuilderIds : BuilderBuilds(w)
  \/ \E w \in BuilderIds : BuilderReleases(w)

FairThreadSpec == Init /\ [][FaultFreeNext]_vars /\ ThreadFairness

\* ================================================= OrderedChunkAllocator
\* Chunk::used() and Chunk::remainder().
ChunkUsed(chunk) == chunk.cur - chunk.start
ChunkRemainder(chunk) == chunk.size - ChunkUsed(chunk)

\* The loop of allocate(): the first chunk with enough free memory, or 0.
RECURSIVE FirstFit(_, _, _)
FirstFit(chunks, size, i) ==
  IF i > Len(chunks) THEN 0
  ELSE IF ChunkRemainder(chunks[i]) >= size THEN i
  ELSE FirstFit(chunks, size, i + 1)

\* The loop of release() and shrinkAllocation(): the first chunk with
\* start <= ptr < start + size, or 0.
RECURSIVE ChunkOf(_, _, _)
ChunkOf(chunks, ptr, i) ==
  IF i > Len(chunks) THEN 0
  ELSE IF ptr >= chunks[i].start /\ ptr < chunks[i].start + chunks[i].size THEN i
  ELSE ChunkOf(chunks, ptr, i + 1)

\* allocAligned(allocSize): any block of the address space that is free.
\* A block may start where another one ends.
allocAligned(allocSize) ==
  {a \in 0 .. MemorySize - allocSize :
     \A i \in 1 .. Len(m_chunks) :
       \/ a + allocSize <= m_chunks[i].start
       \/ m_chunks[i].start + m_chunks[i].size <= a}

Overlaps(ptr, size, region) ==
  /\ size > 0 /\ region.size > 0
  /\ ptr < region.ptr + region.size
  /\ region.ptr < ptr + size

\* allocate() returns 'ptr' and leaves the chunks as 'chunks'.
Allocated(chunks, ptr, size) ==
  /\ m_chunks' = chunks
  /\ regions' = Append(regions, [ptr |-> ptr, size |-> size])
  /\ overlapped' = (overlapped
                      \/ \E k \in 1 .. Len(regions) : Overlaps(ptr, size, regions[k]))

AllocSize(size) == IF size > NORI_KD_MIN_ALLOC THEN size ELSE NORI_KD_MIN_ALLOC

\* OrderedChunkAllocator::allocate<T>(size), size in bytes.
allocate(size) ==
  /\ Len(regions) < MaxRegions
  /\ LET i == FirstFit(m_chunks, size, 1)
     IN  IF i # 0
           THEN Allocated([m_chunks EXCEPT ![i].cur = @ + size],
                          m_chunks[i].cur, size)
           ELSE \E start \in allocAligned(AllocSize(size)) :
                  Allocated(Append(m_chunks,
                                   [start |-> start, cur |-> start + size,
                                    size |-> AllocSize(size)]),
                            start, size)
  /\ UNCHANGED <<treeSpecVars, threadVars>>

\* OrderedChunkAllocator::release(ptr) of the region allocated last.
release ==
  /\ regions # << >>
  /\ LET ptr == regions[Len(regions)].ptr
         i == ChunkOf(m_chunks, ptr, 1)
     IN  m_chunks' = IF i = 0 THEN m_chunks
                     ELSE [m_chunks EXCEPT ![i].cur = ptr]
  /\ regions' = SubSeq(regions, 1, Len(regions) - 1)
  /\ UNCHANGED <<overlapped, treeSpecVars, threadVars>>

\* OrderedChunkAllocator::shrinkAllocation(ptr, newSize) of the region
\* allocated last.
shrinkAllocation(newSize) ==
  /\ regions # << >>
  /\ newSize < regions[Len(regions)].size
  /\ LET ptr == regions[Len(regions)].ptr
         i == ChunkOf(m_chunks, ptr, 1)
     IN  m_chunks' = IF i = 0 THEN m_chunks
                     ELSE [m_chunks EXCEPT ![i].cur = ptr + newSize]
  /\ regions' = [regions EXCEPT ![Len(regions)].size = newSize]
  /\ UNCHANGED <<overlapped, treeSpecVars, threadVars>>

\* OrderedChunkAllocator::cleanup(), once every region was released.
cleanup ==
  /\ regions = << >>
  /\ m_chunks # << >>
  /\ m_chunks' = << >>
  /\ UNCHANGED <<regions, overlapped, treeSpecVars, threadVars>>

ArenaNext ==
  \/ \E size \in 0 .. MaxAllocation : allocate(size)
  \/ release
  \/ \E newSize \in 0 .. MaxAllocation : shrinkAllocation(newSize)
  \/ cleanup

ArenaSpec == Init /\ [][ArenaNext]_vars

\* ---------------------------------------------------------------- C1
\* The reference the traversal is compared with: every primitive of the
\* scene is tested with Mesh::rayIntersect and the closest hit whose
\* distance lies in [r.mint, r.maxt] is kept.
BruteForce(r, g) ==
  LET Step(acc, i) ==
        LET f   == findMesh(m_sizeMap, i)
            hit == Mesh_rayIntersect(MeshCatalogue[m_meshes[f.mesh + 1]],
                                     f.idx, r, g)
        IN  IF hit.fault THEN [acc EXCEPT !.fault = TRUE]
            ELSE IF /\ hit.success /\ hit.t >= r.mint /\ hit.t <= r.maxt
                    /\ (~acc.found \/ hit.t < acc.t)
              THEN [acc EXCEPT !.found = TRUE, !.t = hit.t]
            ELSE acc
  IN  FoldRange(Step, [found |-> FALSE, t |-> Infinity, fault |-> FALSE],
                0, m_primitiveCount - 1)

\* A query has returned to its caller without running into undefined
\* behaviour.
QueryReturned ==
  pc = "returned" /\ lastCall.op = "rayIntersect" /\ lastCall.error = "none"

\* C1: whenever KDTree::rayIntersect returns on a built tree, it returns
\* true exactly when the brute-force loop over all primitives finds a hit
\* within the ray's [mint, maxt], and for a non-shadow query its.t is the
\* smallest such distance.
C1_RayIntersectIsBruteForce ==
  QueryReturned =>
    LET b == BruteForce(ray, garbage)
    IN  ~b.fault =>
          /\ result = b.found
          /\ (~ray.shadowRay /\ result) => its_t = b.t

\* ---------------------------------------------------------------- C2
\* What build() makes of the present scene and parameters on a machine
\* with a single core, where buildInternal switches the parallel build off.
SingleCoreBuild ==
  BuildNonEmpty(ThisTree, m_meshes, m_sizeMap, getPrimitiveCount, 1,
                [j \in 1 .. MaxJobs |-> 0])

\* A step that is a successful build() of a scene with primitives.
BuildStep ==
  /\ pc = "idle" /\ ~isBuilt /\ getPrimitiveCount > 0
  /\ ParameterError(params) = "none"
  /\ lastCall'.op = "build" /\ lastCall'.error = "none"

\* C2: given the same primitives in the same order and the same
\* parameters, build produces the same final node array and index array
\* whatever the number of worker threads (the single-threaded build that
\* is not parallel included) and whichever worker takes which job.
C2_BuildIsDeterministic ==
  [][BuildStep =>
       (SingleCoreBuild.error = "none" =>
          /\ m_nodes' = SingleCoreBuild.m_nodes
          /\ m_indices' = SingleCoreBuild.m_indices)]_vars

\* ---------------------------------------------------------------- C3
\* The state right after a build() that constructed a tree.
BuiltScene ==
  /\ lastCall.op = "build" /\ lastCall.error = "none"
  /\ isBuilt /\ getPrimitiveCount > 0

\* Positions in m_nodes (from 0) of the leaves below the node at position n.
RECURSIVE LeavesBelow(_)
LeavesBelow(n) ==
  IF isLeaf(m_nodes[n + 1]) THEN {n}
  ELSE LeavesBelow(n + getLeftOffset(m_nodes[n + 1]))
         \cup LeavesBelow(n + getLeftOffset(m_nodes[n + 1]) + 1)

\* The index entries of the leaf at position n.
LeafEntries(n) ==
  SubSeq(m_indices, getPrimStart(m_nodes[n + 1]) + 1, getPrimEnd(m_nodes[n + 1]))

CountIn(seq, p) == Cardinality({k \in 1 .. Len(seq) : seq[k] = p})

RECURSIVE SumOver(_, _)
SumOver(f, S) ==
  IF S = {} THEN 0
  ELSE LET x == CHOOSE y \in S : TRUE IN f[x] + SumOver(f, S \ {x})

\* How often primitive p is stored in the leaves of the tree.
StoredCount(p) ==
  SumOver([n \in LeavesBelow(0) |-> CountIn(LeafEntries(n), p)], LeavesBelow(0))

NoLeafRepeats ==
  \A n \in LeavesBelow(0) :
    \A p \in 0 .. getPrimitiveCount - 1 : CountIn(LeafEntries(n), p) <= 1

\* C3: after build, the multiset of the primitive indices stored
\* across all leaves equals the multiset of the root's primitives (each
\* primitive once), and no leaf produced by retraction stores an index twice.
C3_LeafMultisetIsRootMultiset ==
  BuiltScene =>
    /\ \A p \in 0 .. getPrimitiveCount - 1 : StoredCount(p) = 1
    /\ \A n \in LeavesBelow(0) :
         \A k \in 1 .. Len(LeafEntries(n)) :
           LeafEntries(n)[k] \in 0 .. getPrimitiveCount - 1
    /\ NoLeafRepeats

\* ---------------------------------------------------------------- C4
EmptyScene == getPrimitiveCount = 0

\* A step that is build() on a tree that is not built, has no primitives
\* and passes the sanity checks.
EmptyBuildStep ==
  /\ pc = "idle" /\ ~isBuilt /\ EmptyScene
  /\ ParameterError(params) = "none"
  /\ lastCall'.op = "build"

EmptyTreeBuilt ==
  /\ lastCall.error = "none"
  /\ isBuilt
  /\ lastCall.nodesAllocated = 2
  /\ Len(m_nodes) = 1
  /\ isLeaf(m_nodes[1])
  /\ getPrimStart(m_nodes[1]) = 0 /\ getPrimEnd(m_nodes[1]) = 0
  /\ lastCall.threadsStarted = 0

\* C4: build on a tree without primitives succeeds: it allocates two
\* nodes (the alignment slot and the root), the root is an empty leaf
\* (start = end = 0), isBuilt() is true afterwards, no worker thread is
\* started, and every later ray query runs to its end and returns no hit.
C4_EmptyBuild ==
  /\ [][EmptyBuildStep => EmptyTreeBuilt']_vars
  /\ []((EmptyScene /\ isBuilt) =>
          /\ pc \in {"idle", "returned"}
          /\ pc = "returned" => (~result /\ its_t = Infinity))

\* A ray query has returned on the tree built from a scene whose only
\* mesh has no triangles.
C4_Witness ==
  /\ EmptyScene /\ isBuilt /\ m_meshes = <<"E">>
  /\ pc = "returned" /\ lastCall.op = "rayIntersect" /\ ~ray.shadowRay

\* ---------------------------------------------------------------- C5
\* A step that is build() on a tree that is built already.
RebuildStep ==
  /\ pc = "idle" /\ isBuilt
  /\ lastCall'.op = "build"

\* C5: once a tree is built (the tree of an empty scene included), every
\* later call of build is rejected with an error and leaves the node
\* array, the index array and the bounding box as they are.
C5_SecondBuildRejected ==
  [][RebuildStep =>
       /\ lastCall'.error = "AlreadyBuilt"
       /\ UNCHANGED <<m_nodes, m_indices, m_bbox>>]_vars

\* A second build was rejected on a tree with inner nodes.
C5_Witness ==
  /\ lastCall.op = "build" /\ lastCall.error = "AlreadyBuilt"
  /\ isBuilt /\ m_nodeCount >= 3 /\ Len(m_indices) >= 2

\* ---------------------------------------------------------------- C6
\* Traversal cost <= 0, query cost <= 0, empty-space bonus outside (0, 1]
\* (held in tenths), or at most one bin.
BadConfiguration ==
  \/ params.m_traversalCost <= 0
  \/ params.m_queryCost <= 0
  \/ params.m_emptySpaceBonus <= 0 \/ params.m_emptySpaceBonus > 10
  \/ params.m_minMaxBins <= 1

\* A step that is build() with such a setting on a tree that is not built.
MisconfiguredBuildStep ==
  /\ pc = "idle" /\ ~isBuilt /\ BadConfiguration
  /\ lastCall'.op = "build"

\* C6: with traversal cost <= 0, query cost <= 0, an empty-space bonus
\* outside (0, 1] or a bin count <= 1, build fails at its entry: no worker
\* thread is started, no node or index memory is allocated, isBuilt() is
\* still false afterwards and no parameter has changed.
C6_ConfigurationErrorAtEntry ==
  [][MisconfiguredBuildStep =>
       /\ lastCall'.error \in {"TraversalCost", "QueryCost", "EmptySpaceBonus",
                               "MinMaxBins"}
       /\ lastCall'.threadsStarted = 0
       /\ lastCall'.nodesAllocated = 0
       /\ ~isBuilt'
       /\ m_nodes' = NULL /\ m_indices' = NULL
       /\ UNCHANGED <<params, treeVars>>]_vars

\* build has failed on a scene with primitives whose defaults would have
\* made the build parallel.
C6_Witness ==
  /\ lastCall.op = "build"
  /\ lastCall.error \in {"TraversalCost", "QueryCost", "EmptySpaceBonus", "MinMaxBins"}
  /\ getPrimitiveCount > 0 /\ params.m_parallelBuild /\ params.m_maxDepth = 0

\* ---------------------------------------------------------------- C7
\* C7: whenever build fails with an error on a tree that was not built,
\* at whatever point of the construction or of the compactification the
\* error is raised, isBuilt() is false afterwards.
C7_FailedBuildLeavesNotBuilt ==
  (lastCall.op = "build" /\ lastCall.error \notin {"none", "AlreadyBuilt"})
    => ~isBuilt

\* ---------------------------------------------------------------- C8
\* The primitive count above which the claim wants build to fail: 2^30
\* for the 32-bit node word, a quarter of the range of the word.
CapacityLimit == Pow2(WordBits - 2)

\* C8: build on a tree that holds more primitives than the capacity limit
\* fails with a capacity error and constructs no tree.
C8_CapacityError ==
  (lastCall.op = "build" /\ getPrimitiveCount > CapacityLimit
     /\ ParameterError(params) = "none" /\ lastCall.error # "AlreadyBuilt")
    => (lastCall.error = "Capacity" /\ ~isBuilt)

\* ---------------------------------------------------------------- C9
\* build has run to its end: it sets m_tightBBox after the final arrays
\* are written.
BuildCompleted ==
  isBuilt /\ (getPrimitiveCount > 0 => m_tightBBox # BBoxReset)

\* C9: on every tree the builder produces and for every ray, the entry and
\* exit indices of the traversal stay inside the stack array, that is
\* within 0 .. NORI_KD_MAXDEPTH - 1.
C9_StackIndicesInRange ==
  (BuildCompleted /\ lastCall.op = "rayIntersect") =>
    /\ enPt \in 0 .. NORI_KD_MAXDEPTH - 1
    /\ exPt \in 0 .. NORI_KD_MAXDEPTH - 1

\* --------------------------------------------------------------- C10
\* Positions in m_nodes (from 0) of the inner nodes.
InnerNodes == { n \in 0 .. Len(m_nodes) - 1 : ~isLeaf(m_nodes[n + 1]) }
LeftOf(n) == n + getLeftOffset(m_nodes[n + 1])

\* C10: in the final node array the two children of every inner node lie
\* in consecutive slots, the right one at left + 1, and the left one on a
\* 16-byte boundary of the aligned allocation, so that flipping bit 3 of
\* the address of either child gives the address of the other.
C10_ChildrenAreSiblings ==
  (BuildCompleted /\ getPrimitiveCount > 0) =>
    \A n \in InnerNodes :
      /\ LeftOf(n) > n /\ LeftOf(n) + 1 <= Len(m_nodes) - 1
      /\ FinalAddress(LeftOf(n) + 1) = FinalAddress(LeftOf(n)) + 8
      /\ FinalAddress(LeftOf(n)) % 16 = 0
      /\ XorEight(FinalAddress(LeftOf(n))) = FinalAddress(LeftOf(n) + 1)
      /\ XorEight(FinalAddress(LeftOf(n) + 1)) = FinalAddress(LeftOf(n))
      /\ \A m \in InnerNodes : m # n => LeftOf(m) # LeftOf(n)

\* A tree with at least three inner nodes, built by two workers.
C10_Witness ==
  /\ BuildCompleted /\ lastCall.op = "build" /\ lastCall.error = "none"
  /\ Cardinality(InnerNodes) >= 3
  /\ lastCall.threadsStarted = 2 /\ lastCall.jobs >= 1

\* ---------------------------------------------------------------- C11
\* C11: a builder that throws while it builds the subtree it took leaves
\* the failure to the dispatcher, which raises it after joining the
\* builders (so the process is still running), and build never returns
\* successfully when one of the subtrees failed to build.
C11_WorkerFailureIsRaised ==
  /\ \A w \in BuilderIds : tpc[w] = "threw" => process = "running"
  /\ tpc[Dispatcher] = "returned" => \A j \in JobIds : jobState[j] # "failed"

\* ---------------------------------------------------------------- C12
PendingJobs == {j \in JobIds : jobState[j] = "published"}

\* The dispatcher leaves transitionToNLogN's wait loop.
DispatcherContinues == tpc[Dispatcher] = "await" /\ tpc'[Dispatcher] = "release"

\* C12: at most one job is pending in the mailbox; the dispatcher
\* publishes only into the empty slot, only the builder that took the job
\* clears the slot, every job is taken by exactly one builder, and the
\* dispatcher continues only after that.
C12_SingleSlotMailbox ==
  /\ [](/\ Cardinality(PendingJobs) <= 1
        /\ \A j \in PendingJobs : m_interface.node = j
        /\ \A j \in JobIds : Len(takers[j]) <= 1)
  /\ [][/\ (m_interface'.node # m_interface.node) =>
             \/ /\ m_interface.node = 0
                /\ tpc[Dispatcher] = "publish"
                /\ m_interface'.node = jobs
             \/ /\ m_interface'.node = 0
                /\ \E w \in BuilderIds :
                     /\ tpc[w] = "ack" /\ m_interface.mutex = w
                     /\ takers[m_interface.node] = <<w>>
        /\ DispatcherContinues =>
             /\ m_interface.node = 0
             /\ Len(takers[jobs]) = 1
             /\ m_interface.threadMap[jobs] = takers[jobs][1]]_vars

\* Two jobs were handed off, the second one while the builder of the first
\* was still building, and each was taken by a different builder.
C12_Witness ==
  /\ jobs = 2
  /\ tpc[Dispatcher] = "release"
  /\ Len(takers[1]) = 1 /\ Len(takers[2]) = 1
  /\ takers[1] # takers[2]
  /\ jobState[1] = "taken"

\* ---------------------------------------------------------------- C13
BuildersJoined == tpc[Dispatcher] \in {"collect", "compact"}

BuildersGone == \A w \in BuilderIds : tpc[w] \in {"unstarted", "exited"}

\* C14: with every thread scheduled fairly, once done is set every
\* builder leaves its loop, whether it waits for a job or builds one, the
\* joins return and build terminates.
C14_BuildersLeaveTheirLoop ==
  m_interface.done ~> (BuildersGone /\ tpc[Dispatcher] = "returned")

\* done is set while one builder waits for a job and another still builds.
C14_Witness ==
  /\ m_interface.done
  /\ tpc[Dispatcher] = "join"
  /\ \E w, v \in m_builders : tpc[w] = "waiting" /\ tpc[v] = "build"

\* ---------------------------------------------------------------- C16
\* C16: the events a builder copies are those of the job it took: the
\* copy is made under the interface mutex with the job still in the slot,
\* and the dispatcher releases or refills the event buffer and rewrites
\* the job fields only after the copy of every job published before.
C16_EventsCopiedBeforeRelease ==
  /\ [](/\ \A j \in JobIds : copied[j] \in {NotCopied, j}
        /\ \A w \in BuilderIds :
             /\ tpc[w] = "copy" =>
                  /\ m_interface.mutex = w
                  /\ m_interface.node \in JobIds
                  /\ events = m_interface.eventStart
             /\ tpc[w] = "ack" =>
                  /\ m_interface.mutex = w
                  /\ m_interface.node = taken[w].node)
  /\ [][/\ events' # events => \A j \in 1 .. jobs : copied[j] = j
        /\ m_interface'.eventStart # m_interface.eventStart =>
             \A j \in 1 .. jobs - 1 : copied[j] = j]_vars

\* The dispatcher is back in the recursion after two hand-offs, the buffer
\* released, and both builders hold a copy of their job's events.
C16_Witness ==
  /\ jobs = 2
  /\ tpc[Dispatcher] = "root"
  /\ events = Released
  /\ \A j \in JobIds : copied[j] = j

C17_NoOverlap == ~overlapped

\* ---------------------------------------------------------------- C18
\* The inner nodes of the node array that carry the indirection flag.
IndirectionNodes ==
  {k \in 1 .. Len(m_nodes) :
     ~isLeaf(m_nodes[k]) /\ isIndirection(m_nodes[k])}

\* Entries of the indirection table that builder threads appended: the
\* children they point to lie in a builder's context.
BuilderEntries(table) == {k \in 1 .. Len(table) : table[k][1] >= 1}

C19_RetractionDecision ==
  lastCall.op = "build" =>
    \A r \in lastCall.splits :
      /\ r.leaf <=> (r.retract /\ r.order \in {"equal", "greater"})
      /\ r.leaf => /\ r.union /\ r.nodesKept = 0
                    /\ getPrimitiveCount <= CapacityLimit => r.held

\* A build that retracted a split of the min-max stage and a split of the
\* O(n log n) stage and kept another split.
C19_Witness ==
  /\ lastCall.op = "build" /\ lastCall.error = "none"
  /\ \E r \in lastCall.splits : r.stage = "minmax" /\ r.leaf
  /\ \E r \in lastCall.splits : r.stage = "nlogn" /\ r.leaf
  /\ \E r \in lastCall.splits : ~r.leaf /\ r.order = "less"

\* ---------------------------------------------------------------- C20
\* C20 as stated: a split whose finalCost equals primCount * m_queryCost
\* is kept.
C20_EqualCostKeepsSplit ==
  lastCall.op = "build" =>
    \A r \in lastCall.splits : r.order = "equal" => ~r.leaf

\* C20, amended: with retraction enabled a split whose finalCost equals
\* primCount * m_queryCost is retracted, the node becomes a leaf and the
\* nodes below it are removed; such a split is kept only when retraction
\* is disabled.
C20_EqualCostRetracts ==
  lastCall.op = "build" =>
    \A r \in lastCall.splits :
      r.order = "equal" => (r.leaf <=> r.retract) /\ (r.leaf => r.nodesKept = 0)

\* A build with retraction enabled that met a split of equal cost.
C20_Witness ==
  /\ lastCall.op = "build" /\ lastCall.error = "none"
  /\ \E r \in lastCall.splits : r.order = "equal" /\ r.retract /\ r.leaf
\* ---------------------------------------------------------------- C21
\* The bad-refines tests of nodes whose best split costs at least as much
\* as a leaf.
CostlyTests == {r \in lastCall.refines : r.order \in {"equal", "greater"}}

\* C21 as stated: in both stages such a node becomes a leaf exactly when
\* (bestCost > 4 * leafCost and primCount < 16) or badRefines >=
\* m_maxBadRefines, and otherwise is split with badRefines incremented by
\* one.
C21_BadRefinesRule ==
  lastCall.op = "build" =>
    \A r \in CostlyTests :
      /\ r.outcome = "leaf" <=> ((r.costly /\ r.small) \/ r.exhausted)
      /\ r.outcome # "leaf" => (r.outcome = "split" /\ r.added = 1)
\* The test of (a) and (b) of the rule.
RuleLeaf(r) == (r.costly /\ r.small) \/ r.exhausted

\* C21, amended: when the best split costs at least as much as a leaf,
\* the event sweep creates a leaf exactly when (a), (b) or the best cost
\* is infinite (no split candidate was found); the min-max stage hands a
\* node whose best cost is infinite to the event sweep with badRefines
\* unchanged and otherwise creates a leaf exactly when (a) or (b); in every
\* other such case badRefines is incremented by one and the node is split.
\* A cheaper split is taken with badRefines unchanged.
C21_BadRefinesRuleWithInfinity ==
  lastCall.op = "build" =>
    \A r \in lastCall.refines :
      /\ (r \in CostlyTests /\ r.stage = "nlogn") =>
           /\ r.outcome = "leaf" <=> (RuleLeaf(r) \/ r.infinite)
           /\ r.outcome # "leaf" => (r.outcome = "split" /\ r.added = 1)
      /\ (r \in CostlyTests /\ r.stage = "minmax") =>
           /\ r.outcome = "transition" <=> r.infinite
           /\ r.outcome = "leaf" <=> (~r.infinite /\ RuleLeaf(r))
           /\ r.outcome = "split" => r.added = 1
           /\ r.outcome # "split" => r.added = 0
      /\ r.order = "less" => (r.outcome = "split" /\ r.added = 0)

\* A build whose event sweep made a leaf of 16 or more primitives for
\* which no split candidate exists, with bad refines left.
C21_Witness ==
  /\ lastCall.op = "build" /\ lastCall.error = "none"
  /\ \E r \in lastCall.refines :
       /\ r.stage = "nlogn" /\ r.infinite /\ ~RuleLeaf(r)
       /\ r.outcome = "leaf"

\* A node of the min-max stage made a leaf by (b).
C21_MinMaxLeaf ==
  \E r \in lastCall.refines :
    r.stage = "minmax" /\ r.outcome = "leaf" /\ r.exhausted

\* ---------------------------------------------------------------- C22
\* The traversal stands at an inner node whose split plane holds the
\* current entry point.
EntryOnSplitPlane ==
  /\ pc = "traverse"
  /\ ~isLeaf(FinalNode(currNode)) /\ FinalNode(currNode) # UninitialisedNode
  /\ At(stack[enPt].p, getAxis(FinalNode(currNode)))
       = getSplit(FinalNode(currNode))

\* The exit point lies beyond the split plane of the current node.
ExitBeyondSplitPlane ==
  At(stack[exPt].p, getAxis(FinalNode(currNode))) > getSplit(FinalNode(currNode))

LeftChild == currNode + getLeftOffset(FinalNode(currNode))
NothingPushed == stack' = stack /\ exPt' = exPt /\ enPt' = enPt

\* C22 as stated: with the entry point on the split plane the traversal
\* always goes to the right child and pushes nothing.
C22_EntryOnPlaneGoesRight ==
  [][EntryOnSplitPlane => (currNode' = LeftChild + 1 /\ NothingPushed)]_vars

\* C22, amended: with the entry point on the split plane the traversal
\* pushes nothing; it goes to the right child when the exit point lies
\* beyond the plane (case Z1) and to the left child when the exit point
\* lies on the plane or before it (cases Z2 and Z3).
C22_EntryOnPlaneFollowsExit ==
  [][EntryOnSplitPlane =>
       /\ NothingPushed
       /\ currNode' = IF ExitBeyondSplitPlane THEN LeftChild + 1
                      ELSE LeftChild]_vars

\* The step of case Z1 has been taken: the entry point lies on the plane
\* of the parent of the current node, the exit point beyond it, and the
\* current node is the right child.
C22_Witness ==
  /\ pc = "traverse"
  /\ \E n \in 0 .. Len(m_nodes) - 1 :
       /\ ~isLeaf(FinalNode(n)) /\ FinalNode(n) # UninitialisedNode
       /\ currNode = n + getLeftOffset(FinalNode(n)) + 1
       /\ At(stack[enPt].p, getAxis(FinalNode(n))) = getSplit(FinalNode(n))
       /\ At(stack[exPt].p, getAxis(FinalNode(n))) > getSplit(FinalNode(n))
       /\ enPt = 0 /\ exPt = 1
\* ---------------------------------------------------------------- C23
\* The stack entries that will still be popped: the exit entry and those
\* reached from it through prev, down to the initial exit entry, whose
\* node is NULL.
RECURSIVE LiveFrom(_, _)
LiveFrom(e, fuel) ==
  IF e < 0 \/ e >= NORI_KD_MAXDEPTH THEN {}
  ELSE IF stack[e].node = NullNode \/ fuel = 0 THEN {e}
  ELSE {e} \cup LiveFrom(stack[e].prev, fuel - 1)

LiveEntries == LiveFrom(exPt, NORI_KD_MAXDEPTH)

\* A straddling case (N4 or P4) sets up a new exit point.
PushesExit ==
  pc = "traverse" /\ ~isLeaf(FinalNode(currNode)) /\ exPt' # exPt

\* C23: the slot a straddling case writes is neither the entry point's
\* nor one of the entries that will still be popped, the new entry links
\* back to the former exit, and until the query returns no step changes
\* the entry point's slot or an entry that will still be popped: a pop
\* reads the node, t and prev written when the entry was pushed.
C23_PushSparesLiveEntries ==
  [][pc = "traverse" =>
       /\ PushesExit =>
            /\ exPt' # enPt /\ exPt' \notin LiveEntries
            /\ enPt' = enPt
            /\ exPt' < NORI_KD_MAXDEPTH =>
                 /\ stack'[exPt'].prev = exPt
                 /\ \A k \in DOMAIN stack : k # exPt' => stack'[k] = stack[k]
       /\ pc' # "returned" =>
            \A k \in LiveEntries \cup {enPt} : stack'[k] = stack[k]
       /\ (isLeaf(FinalNode(currNode)) /\ pc' = "traverse") =>
            /\ enPt' = exPt
            /\ currNode' = stack[exPt].node
            /\ exPt' = stack[exPt].prev
            /\ exPt' < exPt]_vars

\* A push has skipped the slot of the entry point: the new exit entry lies
\* right above the entry point and links to the entry below it.
C23_Witness ==
  /\ pc = "traverse"
  /\ enPt >= 2 /\ exPt = enPt + 1
  /\ stack[exPt].prev = enPt - 1
  /\ stack[exPt].node # NullNode
\* ---------------------------------------------------------------- C24
\* maxt when the leaf loop of the step is over: the t of the hit returned,
\* or maxt as it was.
MaxtAfterLeaf == IF result' THEN its_t' ELSE maxt

\* C24: the traversal loop is left only by returning from a leaf, when
\* the hit recorded lies before the current exit, when the initial exit
\* entry, whose node is NULL, is next to be popped, or when a shadow ray
\* has hit; a pop moves the exit to an entry pushed before.
C24_TraversalEndsAtExit ==
  [][pc = "traverse" =>
       /\ pc' # "traverse" =>
            /\ pc' = "returned"
            /\ isLeaf(FinalNode(currNode))
            /\ \/ stack[exPt].t > MaxtAfterLeaf
               \/ stack[exPt].node = NullNode
               \/ ray.shadowRay /\ result'
       /\ (pc' = "traverse" /\ isLeaf(FinalNode(currNode))) =>
            exPt' < exPt /\ enPt' = exPt]_vars
\* ---------------------------------------------------------------- C25
\* C25: every event list handed to buildTree is in order by axis, then
\* position, then kind with end < planar < start: the list created at the
\* transition from the min-max stage, a builder's copy of a published
\* job, and the left and right lists of a partition, with and without
\* clipping.
C25_EventListsSorted ==
  lastCall.op = "build" => \A l \in lastCall.lists : l.inOrder

\* A parallel build with clipping handed a job to a builder and
\* partitioned lists that hold events of the three axes and the three
\* kinds.
C25_Witness ==
  /\ lastCall.op = "build" /\ lastCall.error = "none"
  /\ \E l \in lastCall.lists :
       l.origin = "job" /\ l.axes = {0, 1, 2} /\ l.size > 6
  /\ \E l \in lastCall.lists :
       /\ l.origin \in {"left", "right"} /\ l.clip
       /\ l.kinds = {EEdgeEnd, EEdgePlanar, EEdgeStart} /\ l.size > 6



\* ------------------------------------------------------------------- C26
\* C26: in every split of the event sweep, each primitive that is planar
\* exactly on the split plane is classified to one side only, the left one
\* if the split says planarLeft and the right one otherwise; its events go
\* to the list of that side alone, and it is counted in exactly one of
\* numLeft and numRight, which are the numbers of primitives classified
\* left or both and right or both.
PlanarSide(s) == IF s.planarLeft THEN ELeftSide ELSE ERightSide

C26_PlanarOnSplitOneSide ==
  lastCall.op = "build" =>
    \A s \in lastCall.sweeps :
      /\ s.onPlane > 0 => s.sides = {PlanarSide(s)}
      /\ s.planarLeft => s.inLeft = s.onPlane /\ s.inRight = 0
      /\ ~s.planarLeft => s.inRight = s.onPlane /\ s.inLeft = 0
      /\ s.numLeft = s.primsLeft + s.primsBoth
      /\ s.numRight = s.primsRight + s.primsBoth
      /\ s.numLeft + s.numRight
           = s.primsLeft + s.primsRight + 2 * s.primsBoth

\* A build with one split that sent primitives planar on its plane to the
\* left and one that sent them to the right, next to primitives on both
\* sides.
C26_Witness ==
  /\ lastCall.op = "build"
  /\ \E s \in lastCall.sweeps : s.onPlane > 0 /\ s.planarLeft /\ s.inLeft > 0
  /\ \E s \in lastCall.sweeps : s.onPlane > 0 /\ ~s.planarLeft /\ s.inRight > 0

\* ------------------------------------------------------------------- C27
\* C27: every node of the event sweep is given a primitive count equal to
\* the number of distinct primitives with events in its event list, each of
\* them contributing one planar event or one start and one end event per
\* axis; a leaf made of such a node appends exactly primCount indices, one
\* per primitive; and the numLeft and numRight of the chosen split are the
\* numbers of primitives classified left or both and right or both.
C27_PrimCountMatchesEvents ==
  lastCall.op = "build" =>
    /\ \A n \in lastCall.entries :
          /\ n.primCount = n.distinct
          /\ n.shaped
          /\ n.leaf /\ n.primCount > 0 =>
                /\ n.appended = n.primCount
                /\ n.appendedPrims = n.primCount
                /\ n.ownPrims
    /\ \A s \in lastCall.sweeps :
          /\ s.numLeft = s.primsLeft + s.primsBoth
          /\ s.numRight = s.primsRight + s.primsBoth
          /\ s.leftPrims = s.numLeft - s.prunedLeft
          /\ s.rightPrims = s.numRight - s.prunedRight

\* A build with clipping whose sweep split a node of three or more
\* primitives with some of them on both sides, and made a leaf of two or
\* more primitives.
C27_Witness ==
  /\ lastCall.op = "build"
  /\ \E s \in lastCall.sweeps : s.clip /\ s.primsBoth > 0
  /\ \E n \in lastCall.entries : n.leaf /\ n.primCount >= 2
  /\ \E n \in lastCall.entries : ~n.leaf /\ n.primCount >= 3

\* ------------------------------------------------------------------- C28
\* C28: at the end of every non-empty build that returns, the summed
\* counters equal the numbers of inner nodes, leaves and leaf entries
\* reachable from the root, there is one leaf more than inner nodes, and
\* compactification writes exactly m_nodeCount nodes and m_indexCount
\* indices and nothing beyond the two arrays.
NonEmptyBuild == lastCall.op = "build" /\ lastCall.nodePtr > 0

CountersMatchTree ==
  /\ lastCall.tally.inner = lastCall.tally.reach.inner
  /\ lastCall.tally.leaf = lastCall.tally.reach.leaf
  /\ lastCall.tally.index = lastCall.tally.reach.entries
  /\ lastCall.tally.leaf = lastCall.tally.inner + 1
  /\ m_nodeCount = lastCall.tally.inner + lastCall.tally.leaf
  /\ m_indexCount = lastCall.tally.index

NothingWrittenPastTheEnd ==
  /\ lastCall.nodePtr <= m_nodeCount
  /\ lastCall.indexPtr <= m_indexCount
  /\ Len(m_nodes) = m_nodeCount
  /\ Len(m_indices) = m_indexCount

EverythingWritten ==
  /\ lastCall.nodePtr = m_nodeCount
  /\ lastCall.indexPtr = m_indexCount
  /\ lastCall.tally.nodesWritten = m_nodeCount
  /\ lastCall.tally.indicesWritten = m_indexCount

C28_CompactionWritesEverything ==
  NonEmptyBuild /\ lastCall.error = "none" =>
    CountersMatchTree /\ NothingWrittenPastTheEnd /\ EverythingWritten

\* In every scene but the one of more primitives than a node word can
\* address the counters match the tree, nothing is written past the end,
\* and a build that returns has written everything.
C28_HoldsWithinCapacity ==
  NonEmptyBuild /\ m_meshes # <<"G">> =>
    /\ CountersMatchTree
    /\ NothingWrittenPastTheEnd
    /\ lastCall.error = "none" => EverythingWritten

\* ------------------------------------------------------------------- C29
\* C29: for every triangle of every registered mesh, Mesh::rayIntersect
\* reads no entry of the index buffer beyond 3 * triangleCount - 1 and
\* gives the result of the intersection test with the triangle of the
\* entries 3 * index, 3 * index + 1 and 3 * index + 2, the triangle that
\* getBoundingBox and getClippedBoundingBox enclose.
TrianglesOf(m) == 0 .. getTriangleCount(MeshCatalogue[m_meshes[m]]) - 1

SameTest(hit, intended) ==
  /\ ~hit.fault
  /\ hit.success = intended.success
  /\ hit.success => hit.t = intended.t

C29_RayIntersectTestsOwnTriangle ==
  pc = "traverse" =>
    \A m \in 1 .. Len(m_meshes) : \A index \in TrianglesOf(m) :
      /\ \A entry \in Mesh_rayIntersectEntries(index) :
            entry <= 3 * getTriangleCount(MeshCatalogue[m_meshes[m]]) - 1
      /\ SameTest(Mesh_rayIntersect(MeshCatalogue[m_meshes[m]], index, ray, garbage),
                  Mesh_triangleHit(MeshCatalogue[m_meshes[m]], index, ray))

\* ------------------------------------------------------------------- C30
\* C30: after any sequence of addMesh calls the offset array m_sizeMap
\* starts at 0, never decreases and ends at the primitive count, and for
\* every primitive index i below the primitive count findMesh gives the
\* mesh m with offset[m] <= i < offset[m + 1] and the local index
\* i - offset[m], a triangle of that mesh; meshes without triangles are
\* passed over.
OffsetsInOrder ==
  /\ Len(m_sizeMap) = Len(m_meshes) + 1
  /\ m_sizeMap[1] = 0
  /\ \A k \in 1 .. Len(m_meshes) :
        m_sizeMap[k + 1] = m_sizeMap[k] + getTriangleCount(MeshCatalogue[m_meshes[k]])
  /\ \A k \in 1 .. Len(m_meshes) : m_sizeMap[k] <= m_sizeMap[k + 1]
  /\ m_sizeMap[Len(m_sizeMap)] = m_primitiveCount

FoundIn(i, f) ==
  /\ f.mesh \in 0 .. Len(m_meshes) - 1
  /\ m_sizeMap[f.mesh + 1] <= i
  /\ i < m_sizeMap[f.mesh + 2]
  /\ f.idx = i - m_sizeMap[f.mesh + 1]
  /\ f.idx \in 0 .. getTriangleCount(MeshCatalogue[m_meshes[f.mesh + 1]]) - 1

C30_FindMeshLocatesPrimitive ==
  /\ OffsetsInOrder
  /\ \A i \in 0 .. m_primitiveCount - 1 : FoundIn(i, findMesh(m_sizeMap, i))

\* A built tree over an empty mesh followed by a mesh of several
\* triangles, whose primitives findMesh had to locate behind the empty one.
C30_Witness ==
  /\ isBuilt
  /\ Len(m_meshes) = 2
  /\ getTriangleCount(MeshCatalogue[m_meshes[1]]) = 0
  /\ m_primitiveCount >= 3
  /\ findMesh(m_sizeMap, 0).mesh = 1

============================================================================
